---- MODULE Spec2Model ----
(***************************************************************************)
(* Model of github.com/symfony-cli/console: the argument reordering pass   *)
(* (fixArgs), the command matcher it uses, and the Application.Run /       *)
(* Command.Run life cycle with its Before / Action / After hooks and the   *)
(* exit handler.                                                           *)
(*                                                                         *)
(* Tokens are strings; the string primitives of the Go standard library    *)
(* that fixArgs uses are written out below character by character.         *)
(***************************************************************************)
EXTENDS Integers, Sequences, FiniteSets, TLC

(* ---------------------------------------------------------------------- *)
(* Bounds                                                                 *)
(* ---------------------------------------------------------------------- *)

\* longest enumerated argument vector
MaxArgs == 3

\* longest enumerated lineage of contexts
MaxDepth == 3

\* most flags on an enumerated command line
MaxGiven == 2

\* most times one scope is parsed
MaxRuns == 2

\* most arguments an enumerated command declares
MaxArgDefs == 2

\* most flags an enumerated scope declares
MaxFlagDefs == 2

\* most members of an enumerated MultiError
MaxErrs == 3

(* ---------------------------------------------------------------------- *)
(* String primitives                                                      *)
(* ---------------------------------------------------------------------- *)

CharAt(s, i) == SubSeq(s, i, i)

\* strings.Index(s, c) for a one-character c: 0-based, -1 when absent
Index(s, c) ==
    IF \E i \in 1..Len(s) : CharAt(s, i) = c
    THEN (CHOOSE i \in 1..Len(s) :
              /\ CharAt(s, i) = c
              /\ \A j \in 1..(i - 1) : CharAt(s, j) # c) - 1
    ELSE -1

\* strings.TrimLeft(s, c)
RECURSIVE TrimLeft(_, _)
TrimLeft(s, c) ==
    IF Len(s) > 0 /\ CharAt(s, 1) = c
    THEN TrimLeft(SubSeq(s, 2, Len(s)), c)
    ELSE s

\* strings.TrimRight(s, c)
RECURSIVE TrimRight(_, _)
TrimRight(s, c) ==
    IF Len(s) > 0 /\ CharAt(s, Len(s)) = c
    THEN TrimRight(SubSeq(s, 1, Len(s) - 1), c)
    ELSE s

\* strings.Trim(s, c): both ends
Trim(s, c) == TrimRight(TrimLeft(s, c), c)

\* strings.TrimSpace(s)
TrimSpace(s) == Trim(s, " ")

\* strings.Split(s, sep) for a one-character sep
RECURSIVE Split(_, _)
Split(s, sep) ==
    LET i == Index(s, sep)
    IN  IF i = -1
        THEN <<s>>
        ELSE <<SubSeq(s, 1, i)>> \o Split(SubSeq(s, i + 2, Len(s)), sep)

\* strings.HasPrefix(s, p)
HasPrefix(s, p) == Len(p) <= Len(s) /\ SubSeq(s, 1, Len(p)) = p

(* ---------------------------------------------------------------------- *)
(* Flag and command declarations                                          *)
(* ---------------------------------------------------------------------- *)

FlagParsingNormal == "FlagParsingNormal"
FlagParsingSkipped == "FlagParsingSkipped"
FlagParsingSkippedAfterFirstArg == "FlagParsingSkippedAfterFirstArg"

\* "no flag" / "no command" result of the lookups
NoFlag == [Name |-> "", Aliases |-> <<>>, Kind |-> "none", ShortAlias |-> ""]
NoCommand == [Name |-> "", Category |-> "", Aliases |-> <<>>,
              FlagParsing |-> FlagParsingNormal, Flags |-> <<>>]

IntFlag(name, aliases) ==
    [Name |-> name, Aliases |-> aliases, Kind |-> "IntFlag", ShortAlias |-> ""]
StringFlag(name, aliases) ==
    [Name |-> name, Aliases |-> aliases, Kind |-> "StringFlag", ShortAlias |-> ""]
BoolFlag(name, aliases) ==
    [Name |-> name, Aliases |-> aliases, Kind |-> "BoolFlag", ShortAlias |-> ""]

\* flags of the commands of the test application
testAppUploadFlags ==
    << IntFlag("reference", <<"r">>),
       IntFlag("samples", <<"s">>),
       BoolFlag("test", <<"t">>) >>

Command(name, mode) ==
    [Name |-> name, Category |-> "", Aliases |-> <<>>,
     FlagParsing |-> mode, Flags |-> testAppUploadFlags]

uploadCmd == Command("upload", FlagParsingNormal)
fooCmd == Command("foo", FlagParsingSkipped)
runCmd == Command("run", FlagParsingSkippedAfterFirstArg)

\* the test application: its global flags and its commands
testAppFlags ==
    << IntFlag("v", <<>>),
       StringFlag("config", <<>>),
       BoolFlag("quiet", <<"q">>) >>

testAppCommands == << uploadCmd, fooCmd, runCmd >>

\* a command as an application declares it
Declare(category, name, aliases, mode) ==
    [Name |-> name, Category |-> category, Aliases |-> aliases,
     FlagParsing |-> mode, Flags |-> <<>>]

\* the built-in commands setup puts in front of the declared ones
helpCommand == Declare("self", "help", <<"help", "list">>, FlagParsingNormal)
versionCommand == Declare("self", "version", <<"version">>, FlagParsingNormal)

\* the built-in flags setup puts in front of the declared ones
VersionFlag == BoolFlag("V", <<>>)
HelpFlag == BoolFlag("help", <<"h">>)
NoInteractionFlag == BoolFlag("no-interaction", <<>>)
NoAnsiFlag == BoolFlag("no-ansi", <<>>)
AnsiFlag == BoolFlag("ansi", <<>>)
LogLevelFlag ==
    [Name |-> "log-level", Aliases |-> <<"verbose">>, Kind |-> "verbosityFlag",
     ShortAlias |-> "v"]
QuietFlag ==
    [Name |-> "quiet", Aliases |-> <<"q">>, Kind |-> "quietFlag", ShortAlias |-> ""]

\* Application.prependFlag(fl), on the list of flags
prependFlag(fls, fl) ==
    IF \E i \in 1..Len(fls) : fls[i] = fl THEN fls ELSE <<fl>> \o fls

\* the flags of an application once setup has run
setupFlags(fls) ==
    prependFlag(prependFlag(prependFlag(prependFlag(prependFlag(prependFlag(
        prependFlag(fls, VersionFlag), LogLevelFlag), QuietFlag),
        NoInteractionFlag), AnsiFlag), NoAnsiFlag), HelpFlag)

\* an application declared with one flag and one command
oneCommandAppFlags == << StringFlag("config", <<"c">>) >>
oneCommandAppCommands == << uploadCmd >>

\* number of verbosity levels reachable by repeating the short alias
VerbosityLevels == 3

RECURSIVE Repeat(_, _)
Repeat(s, n) == IF n = 0 THEN "" ELSE s \o Repeat(s, n - 1)

\* flagName(f)
flagName(f) == f.Name

\* f.Names(): canonical name first, then the aliases; the verbosity flag
\* adds its short alias repeated 1..VerbosityLevels times
Names(f) ==
    IF f.Kind = "verbosityFlag"
    THEN (IF f.Name # "" THEN <<f.Name>> ELSE <<>>) \o f.Aliases
             \o [i \in 1..VerbosityLevels |-> Repeat(f.ShortAlias, i)]
    ELSE <<f.Name>> \o f.Aliases

\* findFlag(flagDefs, name): first declared flag one of whose names is name
findFlag(flagDefs, name) ==
    LET hits == {i \in 1..Len(flagDefs) :
                    \E k \in 1..Len(Names(flagDefs[i])) : Names(flagDefs[i])[k] = name}
    IN  IF hits = {}
        THEN NoFlag
        ELSE flagDefs[CHOOSE i \in hits : \A j \in hits : i <= j]

\* expandShortcut that leaves an alias as it was written
expandShortcutKeepsAlias(flagDefs, name) == name

\* expandShortcut(flagDefs, name): alias -> canonical name
expandShortcut(flagDefs, name) ==
    LET f == findFlag(flagDefs, name)
    IN  IF f # NoFlag
        THEN IF f.Kind = "verbosityFlag" THEN name ELSE flagName(f)
        ELSE name

(* ---------------------------------------------------------------------- *)
(* Command matching                                                       *)
(* ---------------------------------------------------------------------- *)

\* Command.FullName()
FullName(c) == IF c.Category # "" THEN c.Category \o ":" \o c.Name ELSE c.Name

\* the regular expression "^" + join(parts, "[^:]*:") + "[^:]*$" built by
\* HasName matches p iff p has as many colon-separated segments as the
\* name and each part of the name is a prefix of the segment at its place
FuzzyMatch(name, p) ==
    LET parts == Split(name, ":")
        segs  == Split(p, ":")
    IN  /\ Len(parts) = Len(segs)
        /\ \A i \in 1..Len(parts) : HasPrefix(segs[i], parts[i])

\* Command.HasName(name, exact)
HasName(c, name, exact) ==
    LET possibilities == <<FullName(c)>> \o c.Aliases
    IN  \/ \E i \in 1..Len(possibilities) : possibilities[i] = name
        \/ /\ ~exact
           /\ \E i \in 1..Len(possibilities) : FuzzyMatch(name, possibilities[i])

\* the findCommand closure of fixArgs: index into cmdDefs, 0 for nil
findCommand(cmdDefs, name) ==
    LET n       == Len(cmdDefs)
        exact   == {i \in 1..n : HasName(cmdDefs[i], name, TRUE)}
        matches == {i \in 1..n : HasName(cmdDefs[i], name, FALSE)}
    IN  IF exact # {}
        THEN CHOOSE i \in exact : \A j \in exact : i <= j
        ELSE IF Cardinality(matches) = 1
             THEN CHOOSE i \in matches : TRUE
             ELSE 0

(* ---------------------------------------------------------------------- *)
(* The closures of fixArgs                                                *)
(* ---------------------------------------------------------------------- *)

\* isFlag(name)
isFlag(name) == Len(name) > 1 /\ CharAt(name, 1) = "-"

\* cleanFlag(name)
cleanFlag(flagDefs, name) ==
    LET index == Index(name, "=")
        n1    == IF index # -1 THEN SubSeq(name, 1, index) ELSE name
    IN  expandShortcut(flagDefs, TrimLeft(n1, "-"))

\* translateShortcutFlags(name)
translateShortcutFlags(flagDefs, name) ==
    LET twoDashes == (CharAt(name, 2) = "-")
        n1        == Trim(name, "-")
        index     == Index(n1, "=")
        n2        == IF index # -1
                     THEN expandShortcut(flagDefs, SubSeq(n1, 1, index))
                              \o SubSeq(n1, index + 1, Len(n1))
                     ELSE expandShortcut(flagDefs, n1)
    IN  IF twoDashes THEN "--" \o n2 ELSE "-" \o n2

\* a known-flag branch that leaves an "=" at the very end in place
knownFlagTokenKeepsEqual(flagDefs, arg) == translateShortcutFlags(flagDefs, arg)

\* the known-flag branch: the token appended to flags
\* (an "=" at the very end is stripped)
knownFlagToken(flagDefs, arg) ==
    LET t        == translateShortcutFlags(flagDefs, arg)
        equalPos == Index(t, "=")
    IN  IF equalPos = Len(t) - 1 THEN SubSeq(t, 1, equalPos) ELSE t

\* the known-flag branch: does the flag take the next token as its value
knownFlagNeedsValue(flagDefs, arg) ==
    LET t        == translateShortcutFlags(flagDefs, arg)
        equalPos == Index(t, "=")
        flag     == findFlag(flagDefs, cleanFlag(flagDefs, arg))
    IN  /\ (equalPos = Len(t) - 1 \/ equalPos = -1)
        /\ flag.Kind # "BoolFlag"
        /\ flag.Kind # "verbosityFlag"

\* the unknown-flag branch of a command pass
unknownFlagNeedsValue(arg) ==
    LET trimmedFlag == TrimSpace(arg)
    IN  CharAt(trimmedFlag, Len(trimmedFlag)) = "="

\* a return statement that appends the command after the non-flags
fixArgsResultCommandLast(fl, present, cmd, nf) ==
    (fl \o nf) \o (IF present THEN <<cmd>> ELSE <<>>)

\* the return statement of fixArgs: the command slot, when it is filled
\* (present), goes between the flags and the non-flags
fixArgsResult(fl, present, cmd, nf) ==
    (IF present THEN Append(fl, cmd) ELSE fl) \o nf

(* ---------------------------------------------------------------------- *)
(* State                                                                  *)
(* ---------------------------------------------------------------------- *)

VARIABLES
    \* one call of fixArgs
    pass,                    \* "app" for Application.fixArgs, else the command whose fixArgs runs
    args,                    \* the argument vector given to fixArgs
    idx,                     \* position of the range loop (next token to read)
    flags,                   \* the flags accumulator
    nonFlags,                \* the nonFlags accumulator
    command,                 \* the command slot
    parsingMode,             \* the active FlagParsingMode
    previousFlagNeedsValue,  \* the value-pending bit
    ret,                     \* the slice returned by fixArgs
    fpc,                     \* "idle", "loop" or "done"
    \* bookkeeping on the same call: which input position each emitted
    \* token came from, and what the loop did with each token it read
    flagsSrc,                \* input positions of the tokens of flags
    nonFlagsSrc,             \* input positions of the tokens of nonFlags
    commandSrc,              \* input position of the token put in the command slot, 0 if none
    retSrc,                  \* input positions of the tokens of ret (0: not an input token)
    branch                   \* branch[i]: the branch of the loop body that read args[i]

fixVars == <<pass, args, idx, flags, nonFlags, command, parsingMode,
             previousFlagNeedsValue, ret, fpc,
             flagsSrc, nonFlagsSrc, commandSrc, retSrc, branch>>

VARIABLES
    \* one call of Application.Run
    osExits,    \* TRUE: OsExiter ends the process (os.Exit); FALSE: it returns (a replaced OsExiter)
    hooks,      \* which of the optional Before / After hooks are set (non-nil)
    pc,         \* the statement Application.Run / Command.Run is at
    err,        \* the named result of Application.Run
    cerr,       \* the named result of Command.Run
    panicking,  \* the value of the panic being unwound, NoPanic if none
    parsed,     \* how parsing and validating the application arguments ended
    calls,      \* how many times each callback has been invoked
    outcome,    \* what each callback did the last time it was invoked
    handled     \* the non-nil errors HandleExitCoder printed and gave to OsExiter, with the caller

runVars == <<osExits, hooks, pc, err, cerr, panicking, parsed, calls, outcome, handled>>

\* state of the library calls followed one at a time
VARIABLES
    \* one call of HandleExitCoder or of MultiError.Errors
    herr,        \* the error the call is made on
    exitCalls,   \* the codes OsExiter has been called with
    printed,     \* the messages HandleError has printed
    errsOut,     \* the slice Errors() returned
    epc          \* "idle", "call", "handled" or "copied"

errVars == <<herr, exitCalls, printed, errsOut, epc>>

VARIABLES
    \* command-name matching on one application
    commands,   \* Application.Commands
    isSetup,    \* has Application.setup run
    token,      \* the token matched against the commands
    variant,    \* the same token in another case
    bestOut,    \* what BestCommand returned for token and for variant
    findOut     \* what the findCommand closure of fixArgs returned for them

matchVars == <<commands, isSetup, token, variant, bestOut, findOut>>

VARIABLES
    \* one typed lookup from a context
    lineage,   \* the contexts from the current one to the root
    asked,     \* the flag name given to the accessor
    answer     \* <<v>> once the accessor has returned v

lookupVars == <<lineage, asked, answer>>

VARIABLES
    \* parsing and validating the flags of one scope
    level,        \* "app": the application's flags in Application.Run, "cmd": a command's flags in Command.Run
    written,      \* the flag declarations as the program text gives them
    declared,     \* the flag declarations as they stand (Application.Flags or Command.Flags)
    atParse,      \* the flag declarations as they stood when parseArgs was last entered
    prefixes,     \* Application.FlagEnvPrefix
    environ,      \* the environment: variable name -> value, "" when unset
    given,        \* the flags on the command line, as <<canonical name, value>> in the order flag.Parse reads them
    fs,           \* the flag.FlagSet: formal is name -> value, actual the names that have been set
    perr,         \* the error parseArgs returned
    verr,         \* the error checkFlagsValidity returned
    validated,    \* the names of the flags whose Validator has been invoked, in order
    result,       \* the error Run returns before any callback, NoParseError if it goes on
    runs,         \* how many times the scope has been parsed
    ppc,          \* the statement Run is at
    isSetAsked,   \* the name given to Context.IsSet
    isSetOut      \* <<b>> once Context.IsSet has returned b

parseVars == <<level, written, declared, atParse, prefixes, environ, given, fs, perr, verr, validated, result, runs, ppc, isSetAsked, isSetOut>>

VARIABLES
    \* one call of checkRequiredArgs
    argDefs,       \* Command.Args, the declared arguments
    positionals,   \* the values of context.Args()
    argErr         \* <<e>> once checkRequiredArgs has returned e

reqVars == <<argDefs, positionals, argErr>>

VARIABLES
    \* the flag declarations of one application through setup and the two parses of a Run
    applicationFlags,   \* Application.Flags as declared
    cmdFlags,           \* the Flags of each declared command
    invoked,            \* the place of the command the arguments name, 0 for none
    upc,                \* "idle", "setup", "app.parseArgs", "dispatch", "c.parseArgs", "done" or "panicked"
    panicAt,            \* the step that panicked with a redefined flag, "" if none has
    reached             \* the steps of Run that have been completed

uniVars == <<applicationFlags, cmdFlags, invoked, upc, panicAt, reached>>

VARIABLES
    \* the flag set parsed from the reordered arguments and the context built on it
    fsArgs,    \* flagSet.Args(): what flag.Parse left unread
    fsErr,     \* whether flag.Parse returned an error
    ctxArgs,   \* the values of Context.Args()
    cpc        \* "idle", "parsed" or "done"

ctxVars == <<fsArgs, fsErr, ctxArgs, cpc>>

libVars == <<errVars, matchVars, lookupVars, parseVars, reqVars, uniVars, ctxVars>>

vars == <<fixVars, runVars, libVars>>

(* ---------------------------------------------------------------------- *)
(* Error values                                                           *)
(* ---------------------------------------------------------------------- *)

\* the nil error
Nil == [kind |-> "nil", msg |-> "", errs |-> <<>>, stack |-> FALSE]

\* errors.New(msg), as the callbacks return it
NewError(msg) == [kind |-> "error", msg |-> msg, errs |-> <<>>, stack |-> FALSE]

\* an error that carries a stack trace (github.com/pkg/errors)
StackError(msg) == [kind |-> "error", msg |-> msg, errs |-> <<>>, stack |-> TRUE]

\* a panic value that is not an error
PanicValue(msg) == [kind |-> "value", msg |-> msg, errs |-> <<>>, stack |-> FALSE]

NoPanic == [kind |-> "none", msg |-> "", errs |-> <<>>, stack |-> FALSE]

\* newMultiError(e1, e2)
newMultiError(e1, e2) ==
    [kind |-> "MultiError", msg |-> "", errs |-> <<e1, e2>>, stack |-> FALSE]

\* IncorrectUsageError{e}
IncorrectUsageError(e) ==
    [kind |-> "IncorrectUsageError", msg |-> "", errs |-> <<e>>, stack |-> FALSE]

\* errors.Wrapf(e, `invalid value for flag "%s"`, name) in checkFlagsValidity
InvalidValueError(e) ==
    [kind |-> "invalid value for flag", msg |-> "", errs |-> <<e>>, stack |-> TRUE]

\* &CommandNotFoundError{command, app}
CommandNotFoundError ==
    [kind |-> "CommandNotFoundError", msg |-> "", errs |-> <<>>, stack |-> FALSE]

\* WrapPanic(msg): an error that already has a stack trace is returned as
\* it is, anything else is wrapped
WrapPanic(v) ==
    IF v.kind # "value" /\ v.stack
    THEN v
    ELSE [kind |-> "WrappedPanic", msg |-> v.msg,
          errs |-> IF v.kind # "value" THEN <<v>> ELSE <<>>, stack |-> TRUE]

\* the errors and panic values the callbacks of the model produce
BeforeError == NewError("before error")
ActionError == NewError("action error")
AfterError == NewError("after error")
CommandBeforeError == NewError("command before error")
CommandActionError == NewError("command action error")
CommandAfterError == NewError("command after error")
ActionPanics == {PanicValue("action panic"), StackError("action panic error")}

\* a call of Application.Run has not been started
RunIdle ==
    /\ osExits = FALSE
    /\ hooks = [aBefore |-> FALSE, aAfter |-> FALSE, cBefore |-> FALSE, cAfter |-> FALSE]
    /\ pc = "idle"
    /\ err = Nil
    /\ cerr = Nil
    /\ panicking = NoPanic
    /\ parsed = [parse |-> "", validity |-> ""]
    /\ calls = [aBefore |-> 0, aAction |-> 0, aAfter |-> 0,
                cBefore |-> 0, cAction |-> 0, cAfter |-> 0]
    /\ outcome = [aBefore |-> "", aAction |-> "", aAfter |-> "",
                  cBefore |-> "", cAction |-> "", cAfter |-> ""]
    /\ handled = <<>>

\* fixArgs is not being followed
FixIdle ==
    /\ pass = "app"
    /\ args = <<>>
    /\ idx = 1
    /\ flags = <<>>
    /\ nonFlags = <<>>
    /\ command = ""
    /\ parsingMode = FlagParsingNormal
    /\ previousFlagNeedsValue = FALSE
    /\ ret = <<>>
    /\ fpc = "idle"
    /\ flagsSrc = <<>>
    /\ nonFlagsSrc = <<>>
    /\ commandSrc = 0
    /\ retSrc = <<>>
    /\ branch = <<>>

\* a matcher that has not been called yet
NotCalled == [name |-> "", token |-> NoCommand, variant |-> NoCommand]

\* a flag set that has not been built, and the nil error of the flag checks
NoFlagSet == [formal |-> <<>>, actual |-> {}]
NoParseError == [kind |-> "nil", flag |-> ""]

\* library calls at rest
\* neither HandleExitCoder nor Errors is being called
ErrIdle ==
    /\ herr = Nil
    /\ exitCalls = <<>>
    /\ printed = <<>>
    /\ errsOut = <<>>
    /\ epc = "idle"

\* no command name is being matched
MatchIdle ==
    /\ commands = <<>>
    /\ isSetup = FALSE
    /\ token = ""
    /\ variant = ""
    /\ bestOut = NotCalled
    /\ findOut = NotCalled

\* no flag is being looked up
LookupIdle ==
    /\ lineage = <<>>
    /\ asked = ""
    /\ answer = <<>>

\* no flags are being parsed
ParseIdle ==
    /\ level = "app"
    /\ written = <<>>
    /\ declared = <<>>
    /\ atParse = <<>>
    /\ prefixes = <<>>
    /\ environ = <<>>
    /\ given = <<>>
    /\ fs = NoFlagSet
    /\ perr = NoParseError
    /\ verr = NoParseError
    /\ validated = <<>>
    /\ result = NoParseError
    /\ runs = 0
    /\ ppc = "idle"
    /\ isSetAsked = ""
    /\ isSetOut = <<>>

\* checkRequiredArgs is not being called
ReqIdle ==
    /\ argDefs = <<>>
    /\ positionals = <<>>
    /\ argErr = <<>>

\* no application is being set up
UniIdle ==
    /\ applicationFlags = <<>>
    /\ cmdFlags = <<>>
    /\ invoked = 0
    /\ upc = "idle"
    /\ panicAt = ""
    /\ reached = <<>>

\* nothing has been parsed
CtxIdle ==
    /\ fsArgs = <<>>
    /\ fsErr = FALSE
    /\ ctxArgs = <<>>
    /\ cpc = "idle"

\* none of the library functions is being called
LibIdle ==
    /\ ErrIdle
    /\ MatchIdle
    /\ LookupIdle
    /\ ParseIdle
    /\ ReqIdle
    /\ UniIdle
    /\ CtxIdle

\* everything but the state of one call of HandleExitCoder or of MultiError.Errors, and all of it at rest
ErrFrame == <<fixVars, runVars, matchVars, lookupVars, parseVars, reqVars, uniVars, ctxVars>>
ErrAlone ==
    /\ FixIdle
    /\ RunIdle
    /\ MatchIdle
    /\ LookupIdle
    /\ ParseIdle
    /\ ReqIdle
    /\ UniIdle
    /\ CtxIdle

\* everything but the state of command-name matching on one application, and all of it at rest
MatchFrame == <<fixVars, runVars, errVars, lookupVars, parseVars, reqVars, uniVars, ctxVars>>
MatchAlone ==
    /\ FixIdle
    /\ RunIdle
    /\ ErrIdle
    /\ LookupIdle
    /\ ParseIdle
    /\ ReqIdle
    /\ UniIdle
    /\ CtxIdle

\* everything but the state of one typed lookup from a context, and all of it at rest
LookupFrame == <<fixVars, runVars, errVars, matchVars, parseVars, reqVars, uniVars, ctxVars>>
LookupAlone ==
    /\ FixIdle
    /\ RunIdle
    /\ ErrIdle
    /\ MatchIdle
    /\ ParseIdle
    /\ ReqIdle
    /\ UniIdle
    /\ CtxIdle

\* everything but the state of parsing and validating the flags of one scope, and all of it at rest
ParseFrame == <<fixVars, runVars, errVars, matchVars, lookupVars, reqVars, uniVars, ctxVars>>
ParseAlone ==
    /\ FixIdle
    /\ RunIdle
    /\ ErrIdle
    /\ MatchIdle
    /\ LookupIdle
    /\ ReqIdle
    /\ UniIdle
    /\ CtxIdle

\* everything but the state of one call of checkRequiredArgs, and all of it at rest
ReqFrame == <<fixVars, runVars, errVars, matchVars, lookupVars, parseVars, uniVars, ctxVars>>
ReqAlone ==
    /\ FixIdle
    /\ RunIdle
    /\ ErrIdle
    /\ MatchIdle
    /\ LookupIdle
    /\ ParseIdle
    /\ UniIdle
    /\ CtxIdle

\* everything but the state of the flag declarations of one application through setup and the two parses of a Run, and all of it at rest
UniFrame == <<fixVars, runVars, errVars, matchVars, lookupVars, parseVars, reqVars, ctxVars>>
UniAlone ==
    /\ FixIdle
    /\ RunIdle
    /\ ErrIdle
    /\ MatchIdle
    /\ LookupIdle
    /\ ParseIdle
    /\ ReqIdle
    /\ CtxIdle

\* everything but the state of the flag set parsed from the reordered arguments and the context built on it, and all of it at rest
CtxFrame == <<fixVars, runVars, errVars, matchVars, lookupVars, parseVars, reqVars, uniVars>>
CtxAlone ==
    /\ FixIdle
    /\ RunIdle
    /\ ErrIdle
    /\ MatchIdle
    /\ LookupIdle
    /\ ParseIdle
    /\ ReqIdle
    /\ UniIdle

\* end of the rest states
(* ---------------------------------------------------------------------- *)
(* Inputs of fixArgs                                                      *)
(* ---------------------------------------------------------------------- *)

\* the tokens argument vectors are built from
Tokens ==
    { "--v=3", "-q", "-config", "-reference=4", "-r", "-t",
      "upload", "foo", "run", "file1", "4", "--" }

\* the argument vectors of TestFixAndParseArgsApplication and
\* TestFixAndParseArgsCommand that are longer than MaxArgs
TestVectors ==
    { <<"-reference=4", "--v=3", "-q", "upload", "file1", "file2">>,
      <<"-reference", "4", "--v=3", "-q", "upload", "file1", "file2">>,
      <<"upload", "-reference=4", "-v=3", "-q", "upload", "file1", "file2">>,
      <<"run", "-v=4", "--reference", "8", "php", "vd.php">>,
      <<"run", "--", "-v=4", "--reference", "8", "php", "vd.php">>,
      <<"-v=4", "foo", "--reference", "8", "php", "vd.php">>,
      <<"-reference=4", "--samples=10", "-t", "file1", "-s=", "5", "-H='Host: foo'", "foo">>,
      <<"-reference=4", "-s=", "5", "--", "--samples=10", "file1", "-f=", "3", "foo">> }

ArgVectors ==
    (UNION {[1..n -> Tokens] : n \in 0..MaxArgs}) \cup TestVectors

\* Application.fixArgs and Command.fixArgs of each declared command
Passes == {"app"} \cup {testAppCommands[i].Name : i \in 1..Len(testAppCommands)}

CommandNamed(name) ==
    testAppCommands[CHOOSE i \in 1..Len(testAppCommands) : testAppCommands[i].Name = name]

\* the arguments Application.fixArgs / Command.fixArgs give to fixArgs
\* "app" is the test application, "one" the one-command application as
\* declared and "one.setup" the same application once setup has run (the
\* version and help commands are put in front of the declared ones)
AppPasses == {"app", "one", "one.setup"}
flagDefs(p) ==
    IF p = "app" THEN testAppFlags
    ELSE IF p = "one" THEN oneCommandAppFlags
    ELSE IF p = "one.setup" THEN setupFlags(oneCommandAppFlags)
    ELSE CommandNamed(p).Flags
cmdDefs(p) ==
    IF p = "app" THEN testAppCommands
    ELSE IF p = "one" THEN oneCommandAppCommands
    ELSE IF p = "one.setup" THEN <<versionCommand, helpCommand>> \o oneCommandAppCommands
    ELSE <<>>
defaultMode(p) == IF p \in AppPasses THEN FlagParsingNormal ELSE CommandNamed(p).FlagParsing
defaultCommand(p) == IF p \in AppPasses THEN "" ELSE "--"

(* ---------------------------------------------------------------------- *)
(* fixArgs: one action per branch of the loop body                        *)
(* ---------------------------------------------------------------------- *)

InitFix ==
    /\ pass \in Passes
    /\ args \in ArgVectors
    /\ idx = 1
    /\ flags = <<>>
    /\ nonFlags = <<>>
    /\ command = defaultCommand(pass)
    /\ parsingMode = defaultMode(pass)
    /\ previousFlagNeedsValue = FALSE
    /\ ret = <<>>
    /\ fpc = "loop"
    /\ flagsSrc = <<>>
    /\ nonFlagsSrc = <<>>
    /\ commandSrc = 0
    /\ retSrc = <<>>
    /\ branch = <<>>
    /\ RunIdle
    /\ LibIdle

Reading == fpc = "loop" /\ idx <= Len(args)

\* bookkeeping shared by the branches
ToFlags(tok, b) ==
    /\ flags' = Append(flags, tok)
    /\ flagsSrc' = Append(flagsSrc, idx)
    /\ branch' = Append(branch, b)
    /\ idx' = idx + 1
    /\ UNCHANGED <<nonFlags, nonFlagsSrc>>

ToNonFlags(tok, b) ==
    /\ nonFlags' = Append(nonFlags, tok)
    /\ nonFlagsSrc' = Append(nonFlagsSrc, idx)
    /\ branch' = Append(branch, b)
    /\ idx' = idx + 1
    /\ UNCHANGED <<flags, flagsSrc>>

Dropped(b) ==
    /\ branch' = Append(branch, b)
    /\ idx' = idx + 1
    /\ UNCHANGED <<flags, flagsSrc, nonFlags, nonFlagsSrc>>

\* a Skipped branch that still moves known flags to the flags
ReadSkippedLiftsFlags ==
    /\ Reading
    /\ parsingMode = FlagParsingSkipped
    /\ IF /\ isFlag(args[idx])
          /\ findFlag(flagDefs(pass), cleanFlag(flagDefs(pass), args[idx])) # NoFlag
       THEN ToFlags(knownFlagToken(flagDefs(pass), args[idx]), "skipped")
       ELSE ToNonFlags(args[idx], "skipped")
    /\ UNCHANGED <<libVars, runVars, pass, args, command, commandSrc, parsingMode,
                   previousFlagNeedsValue, ret, retSrc, fpc>>

\* if parsingMode == FlagParsingSkipped { nonFlags = append(nonFlags, arg); continue }
ReadSkipped ==
    /\ Reading
    /\ parsingMode = FlagParsingSkipped
    /\ ToNonFlags(args[idx], "skipped")
    /\ UNCHANGED <<libVars, runVars, pass, args, command, commandSrc, parsingMode,
                   previousFlagNeedsValue, ret, retSrc, fpc>>

\* a terminator branch that forgets to switch to Skipped
ReadTerminatorKeepsMode ==
    /\ Reading
    /\ parsingMode # FlagParsingSkipped
    /\ args[idx] = "--"
    /\ IF args[idx] # command
       THEN ToNonFlags(args[idx], "terminator")
       ELSE Dropped("terminator")
    /\ UNCHANGED <<libVars, runVars, pass, args, command, commandSrc, parsingMode,
                   previousFlagNeedsValue, ret, retSrc, fpc>>

\* a terminator branch that keeps "--" only when it is the command
ReadTerminatorKeepsCommandOnly ==
    /\ Reading
    /\ parsingMode # FlagParsingSkipped
    /\ args[idx] = "--"
    /\ parsingMode' = FlagParsingSkipped
    /\ IF args[idx] = command
       THEN ToNonFlags(args[idx], "terminator")
       ELSE Dropped("terminator")
    /\ UNCHANGED <<libVars, runVars, pass, args, command, commandSrc, previousFlagNeedsValue, ret, retSrc, fpc>>

\* if arg == "--" { ... }
ReadTerminator ==
    /\ Reading
    /\ parsingMode # FlagParsingSkipped
    /\ args[idx] = "--"
    /\ parsingMode' = FlagParsingSkipped
    /\ IF args[idx] # command
       THEN ToNonFlags(args[idx], "terminator")
       ELSE Dropped("terminator")
    /\ UNCHANGED <<libVars, runVars, pass, args, command, commandSrc, previousFlagNeedsValue, ret, retSrc, fpc>>

FlagToken ==
    /\ Reading
    /\ parsingMode # FlagParsingSkipped
    /\ args[idx] # "--"
    /\ isFlag(args[idx])

\* if isFlag(arg) { if flag := findFlag(flagDefs, cleanedFlag); flag != nil { ... } }
ReadKnownFlag ==
    /\ FlagToken
    /\ findFlag(flagDefs(pass), cleanFlag(flagDefs(pass), args[idx])) # NoFlag
    /\ previousFlagNeedsValue' = knownFlagNeedsValue(flagDefs(pass), args[idx])
    /\ ToFlags(knownFlagToken(flagDefs(pass), args[idx]), "knownFlag")
    /\ UNCHANGED <<libVars, runVars, pass, args, command, commandSrc, parsingMode, ret, retSrc, fpc>>

\* else if defaultCommand == "--" && parsingMode == FlagParsingNormal { ... }
ReadUnknownFlagOfCommand ==
    /\ FlagToken
    /\ findFlag(flagDefs(pass), cleanFlag(flagDefs(pass), args[idx])) = NoFlag
    /\ defaultCommand(pass) = "--"
    /\ parsingMode = FlagParsingNormal
    /\ previousFlagNeedsValue' = unknownFlagNeedsValue(args[idx])
    /\ ToFlags(args[idx], "unknownFlagOfCommand")
    /\ UNCHANGED <<libVars, runVars, pass, args, command, commandSrc, parsingMode, ret, retSrc, fpc>>

\* else { nonFlags = append(nonFlags, arg) }
ReadUnknownFlag ==
    /\ FlagToken
    /\ findFlag(flagDefs(pass), cleanFlag(flagDefs(pass), args[idx])) = NoFlag
    /\ ~(defaultCommand(pass) = "--" /\ parsingMode = FlagParsingNormal)
    /\ previousFlagNeedsValue' = FALSE
    /\ ToNonFlags(args[idx], "unknownFlag")
    /\ UNCHANGED <<libVars, runVars, pass, args, command, commandSrc, parsingMode, ret, retSrc, fpc>>

PlainToken ==
    /\ Reading
    /\ parsingMode # FlagParsingSkipped
    /\ args[idx] # "--"
    /\ ~isFlag(args[idx])

\* if previousFlagNeedsValue { flags = append(flags, arg); ... }
ReadFlagValue ==
    /\ PlainToken
    /\ previousFlagNeedsValue
    /\ previousFlagNeedsValue' = FALSE
    /\ ToFlags(args[idx], "flagValue")
    /\ UNCHANGED <<libVars, runVars, pass, args, command, commandSrc, parsingMode, ret, retSrc, fpc>>

CommandToken ==
    /\ PlainToken
    /\ ~previousFlagNeedsValue
    /\ command = ""
    /\ findCommand(cmdDefs(pass), args[idx]) # 0

\* if command == "" { if cmd := findCommand(arg); cmd != nil { ... } }
ReadCommand ==
    /\ CommandToken
    /\ command' = args[idx]
    /\ commandSrc' = idx
    /\ previousFlagNeedsValue' = FALSE
    /\ parsingMode' = cmdDefs(pass)[findCommand(cmdDefs(pass), args[idx])].FlagParsing
    /\ Dropped("command")
    /\ UNCHANGED <<libVars, runVars, pass, args, ret, retSrc, fpc>>

\* if parsingMode == FlagParsingSkippedAfterFirstArg { ... }; nonFlags = append(nonFlags, arg)
ReadPositional ==
    /\ PlainToken
    /\ ~previousFlagNeedsValue
    /\ ~CommandToken
    /\ parsingMode' = IF parsingMode = FlagParsingSkippedAfterFirstArg
                      THEN FlagParsingSkipped
                      ELSE parsingMode
    /\ ToNonFlags(args[idx], "positional")
    /\ UNCHANGED <<libVars, runVars, pass, args, command, commandSrc, previousFlagNeedsValue, ret, retSrc, fpc>>

\* if command != "" { flags = append(flags, command) }; return append(flags, nonFlags...)
Return ==
    /\ fpc = "loop"
    /\ idx > Len(args)
    /\ ret' = fixArgsResult(flags, command # "", command, nonFlags)
    /\ retSrc' = fixArgsResult(flagsSrc, command # "", commandSrc, nonFlagsSrc)
    /\ fpc' = "done"
    /\ UNCHANGED <<libVars, runVars, pass, args, idx, flags, nonFlags, command, parsingMode,
                   previousFlagNeedsValue, flagsSrc, nonFlagsSrc, commandSrc, branch>>

NextFix ==
    \/ ReadSkipped
    \/ ReadTerminator
    \/ ReadKnownFlag
    \/ ReadUnknownFlagOfCommand
    \/ ReadUnknownFlag
    \/ ReadFlagValue
    \/ ReadCommand
    \/ ReadPositional
    \/ Return

SpecFix == InitFix /\ [][NextFix]_vars

\* the tokens the passes of the one-command application are given
AppsTokens ==
    { "-q", "-v", "-h", "-c", "-c=", "-c=a=b", "--config=a-", "---config=b",
      "-t", "upload", "file1", "", "--" }

AppsVectors == UNION {[1..n -> AppsTokens] : n \in 0..MaxArgs}

\* Application.fixArgs of the one-command application, before and after
\* setup, and Command.fixArgs of its command
AppsPasses == {"one", "one.setup", "upload"}

InitFixApps ==
    /\ pass \in AppsPasses
    /\ args \in AppsVectors
    /\ idx = 1
    /\ flags = <<>>
    /\ nonFlags = <<>>
    /\ command = defaultCommand(pass)
    /\ parsingMode = defaultMode(pass)
    /\ previousFlagNeedsValue = FALSE
    /\ ret = <<>>
    /\ fpc = "loop"
    /\ flagsSrc = <<>>
    /\ nonFlagsSrc = <<>>
    /\ commandSrc = 0
    /\ retSrc = <<>>
    /\ branch = <<>>
    /\ RunIdle
    /\ LibIdle

SpecFixApps == InitFixApps /\ [][NextFix]_vars

(* ---------------------------------------------------------------------- *)
(* Properties of the reordering pass                                      *)
(* ---------------------------------------------------------------------- *)

Range(q) == {q[i] : i \in 1..Len(q)}

Min(S) == CHOOSE x \in S : \A y \in S : x <= y

RECURSIVE Ascending(_)
Ascending(S) == IF S = {} THEN <<>> ELSE <<Min(S)>> \o Ascending(S \ {Min(S)})

\* what a token looks like, read off the token alone
LooksLikeFlag(tok) == Len(tok) > 1 /\ HasPrefix(tok, "-")

\* the name a flag-looking token is written with: the text between the
\* leading dashes and the first "="
WrittenName(tok) ==
    LET body == TrimLeft(tok, "-")
    IN  IF Index(body, "=") = -1 THEN body ELSE SubSeq(body, 1, Index(body, "="))

\* the declared flags (positions in defs) that have n among their names
Declaring(defs, n) ==
    {f \in 1..Len(defs) : n = defs[f].Name \/ n \in Range(defs[f].Aliases)}

\* a token that names a declared flag and leaves its value to the next token
LeavesValueToNext(defs, tok) ==
    /\ \E f \in Declaring(defs, WrittenName(tok)) : defs[f].Kind # "BoolFlag"
    /\ (Index(tok, "=") = -1 \/ Index(tok, "=") = Len(tok) - 1)

\* tokens the pass read while it was interpreting flags
Interpreted(i) == branch[i] \notin {"skipped", "terminator"}

\* application pass: the input positions of the recognised application
\* flags, of the values they consume, and of the first command token
C1_FlagPositions ==
    {i \in 1..Len(branch) :
        /\ Interpreted(i)
        /\ LooksLikeFlag(args[i])
        /\ Declaring(testAppFlags, WrittenName(args[i])) # {}}

C1_ValuePositions ==
    {i \in 2..Len(branch) :
        /\ Interpreted(i)
        /\ ~LooksLikeFlag(args[i])
        /\ (i - 1) \in C1_FlagPositions
        /\ LeavesValueToNext(testAppFlags, args[i - 1])}

C1_CommandCandidates ==
    {i \in 1..Len(branch) :
        /\ Interpreted(i)
        /\ ~LooksLikeFlag(args[i])
        /\ i \notin C1_ValuePositions
        /\ findCommand(testAppCommands, args[i]) # 0}

C1_CommandPosition ==
    IF C1_CommandCandidates = {} THEN <<>> ELSE <<Min(C1_CommandCandidates)>>

C1_RestPositions ==
    (1..Len(branch)) \ (C1_FlagPositions \cup C1_ValuePositions
                           \cup Range(C1_CommandPosition))

C2_TerminatorOpaque ==
    \A d \in 1..Len(branch) :
        branch[d] = "terminator" =>
            LET n == Len(branch) - d
            IN  /\ Len(nonFlags) >= n
                /\ SubSeq(nonFlags, Len(nonFlags) - n + 1, Len(nonFlags))
                       = SubSeq(args, d + 1, d + n)
                /\ \A k \in 1..Len(flagsSrc) : flagsSrc[k] < d
                /\ commandSrc < d
                /\ fpc = "done" =>
                       SubSeq(ret, Len(ret) - n + 1, Len(ret))
                           = SubSeq(args, d + 1, Len(args))

C2_Witness ==
    /\ fpc = "done"
    /\ \E d \in 1..Len(branch) :
          /\ branch[d] = "terminator"
          /\ \E j \in (d + 1)..Len(args) :
                Declaring(flagDefs(pass), WrittenName(args[j])) # {}

\* C3: the Skipped mode is absorbing: a step taken in Skipped mode leaves
\* the mode, the flags and the command slot alone and appends the token it
\* reads, as it is, to the non-flags.
C3_SkippedAbsorbing ==
    [][parsingMode = FlagParsingSkipped =>
          /\ parsingMode' = FlagParsingSkipped
          /\ flags' = flags
          /\ command' = command
          /\ idx' # idx => nonFlags' = Append(nonFlags, args[idx])]_vars

C3_Witness ==
    /\ pass = "app"
    /\ command \in {"foo", "run"}
    /\ parsingMode = FlagParsingSkipped
    /\ Len(nonFlags) > 0
    /\ nonFlags[Len(nonFlags)] = "-q"

\* positionals of the application pass: the tokens that were neither
\* written as a flag nor taken as a flag value nor as the command
C4_Positionals ==
    {i \in Range(nonFlagsSrc) : ~LooksLikeFlag(args[i])}

C4_OutputPosition(i) == CHOOSE k \in 1..Len(retSrc) : retSrc[k] = i

\* C4 as stated: the command token and the positionals keep their input
\* order in the output, positionals written before the command included.
C4_Original ==
    (fpc = "done" /\ pass = "app") =>
        \A a, b \in C4_Positionals \cup (Range(<<commandSrc>>) \ {0}) :
            a < b => C4_OutputPosition(a) < C4_OutputPosition(b)

\* C4: the positionals keep their input order among themselves, and the
\* command token precedes every positional in the output, wherever it was
\* written in the input.
C4_PositionalOrder ==
    (fpc = "done" /\ pass = "app") =>
        /\ \A a, b \in C4_Positionals :
              a < b => C4_OutputPosition(a) < C4_OutputPosition(b)
        /\ \A a \in C4_Positionals :
              commandSrc # 0 => C4_OutputPosition(commandSrc) < C4_OutputPosition(a)

C4_Witness ==
    /\ fpc = "done"
    /\ pass = "app"
    /\ commandSrc > 1
    /\ \E a, b \in C4_Positionals : a < commandSrc /\ commandSrc < b

(* ---------------------------------------------------------------------- *)
(* Application.Run and Command.Run                                        *)
(* ---------------------------------------------------------------------- *)

InitRun ==
    /\ FixIdle
    /\ LibIdle
    /\ osExits \in BOOLEAN
    /\ hooks \in [aBefore : BOOLEAN, aAfter : BOOLEAN, cBefore : BOOLEAN, cAfter : BOOLEAN]
    /\ pc = "a.parseArgs"
    /\ err = Nil
    /\ cerr = Nil
    /\ panicking = NoPanic
    /\ parsed = [parse |-> "", validity |-> ""]
    /\ calls = [aBefore |-> 0, aAction |-> 0, aAfter |-> 0,
                cBefore |-> 0, cAction |-> 0, cAfter |-> 0]
    /\ outcome = [aBefore |-> "", aAction |-> "", aAfter |-> "",
                  cBefore |-> "", cAction |-> "", cAfter |-> ""]
    /\ handled = <<>>

\* HandleExitCoder(e) called from "by": nothing for nil, else HandleError(e)
\* and OsExiter(handleExitCode(e))
HandleExitCoder(e, by) ==
    handled' = IF e = Nil THEN handled ELSE Append(handled, [by |-> by, err |-> e])

\* does the process end inside HandleExitCoder(e)
Exits(e) == e # Nil /\ osExits

\* invoking callback h with result o
Invoke(h, o) ==
    /\ calls' = [calls EXCEPT ![h] = @ + 1]
    /\ outcome' = [outcome EXCEPT ![h] = o]

\* an After hook whose error replaces the earlier one
afterResultReplaces(prior, afterErr) == afterErr

\* the error a deferred After hook leaves in the named result
afterResult(prior, afterErr) ==
    IF prior # Nil THEN newMultiError(prior, afterErr) ELSE afterErr

\* an Application.Run that defers the After hook before it checks the
\* parse error
AppParseDefersAfterFirst ==
    /\ pc = "a.parseArgs"
    /\ \E p \in {"ok", "undefinedFlag", "requiredMissing"}, v \in {"valid", "invalid"} :
          /\ parsed' = [parse |-> p, validity |-> v]
          /\ IF v = "invalid"
             THEN /\ err' = InvalidValueError(NewError("invalid"))
                  /\ pc' = "a.After"
                  /\ UNCHANGED handled
             ELSE IF p # "ok"
             THEN LET e == IncorrectUsageError(NewError(p))
                  IN  /\ HandleExitCoder(e, "Application.Run")
                      /\ err' = e
                      /\ pc' = IF Exits(e) THEN "exited" ELSE "a.After"
             ELSE /\ pc' = "a.Before"
                  /\ UNCHANGED <<err, handled>>
    /\ UNCHANGED <<libVars, fixVars, osExits, hooks, cerr, panicking, calls, outcome>>

\* a.parseArgs, checkFlagsValidity and the usage error (application.go 88-115)
AppParse ==
    /\ pc = "a.parseArgs"
    /\ \E p \in {"ok", "undefinedFlag", "requiredMissing"}, v \in {"valid", "invalid"} :
          /\ parsed' = [parse |-> p, validity |-> v]
          /\ IF v = "invalid"
             THEN /\ err' = InvalidValueError(NewError("invalid"))
                  /\ pc' = "a.recover"
                  /\ UNCHANGED handled
             ELSE IF p # "ok"
             THEN LET e == IncorrectUsageError(NewError(p))
                  IN  /\ HandleExitCoder(e, "Application.Run")
                      /\ err' = e
                      /\ pc' = IF Exits(e) THEN "exited" ELSE "a.recover"
             ELSE /\ pc' = "a.Before"
                  /\ UNCHANGED <<err, handled>>
    /\ UNCHANGED <<libVars, fixVars, osExits, hooks, cerr, panicking, calls, outcome>>

\* an Application.Run that does not return after a failed Before hook
AppBeforeFallsThrough ==
    /\ pc = "a.Before"
    /\ IF ~hooks.aBefore
       THEN /\ pc' = "a.checkHelp"
            /\ UNCHANGED <<err, calls, outcome, handled>>
       ELSE \E o \in {"nil", "err"} :
               /\ Invoke("aBefore", o)
               /\ IF o = "err"
                  THEN /\ HandleExitCoder(BeforeError, "Application.Run")
                       /\ err' = IF Exits(BeforeError) THEN err ELSE BeforeError
                       /\ pc' = IF Exits(BeforeError) THEN "exited" ELSE "a.checkHelp"
                  ELSE /\ pc' = "a.checkHelp"
                       /\ UNCHANGED <<err, handled>>
    /\ UNCHANGED <<libVars, fixVars, osExits, hooks, cerr, panicking, parsed>>

\* if a.Before != nil { ... } (application.go 123-132)
AppBefore ==
    /\ pc = "a.Before"
    /\ IF ~hooks.aBefore
       THEN /\ pc' = "a.checkHelp"
            /\ UNCHANGED <<err, calls, outcome, handled>>
       ELSE \E o \in {"nil", "err"} :
               /\ Invoke("aBefore", o)
               /\ IF o = "err"
                  THEN /\ HandleExitCoder(BeforeError, "Application.Run")
                       /\ err' = IF Exits(BeforeError) THEN err ELSE BeforeError
                       /\ pc' = IF Exits(BeforeError) THEN "exited" ELSE "a.After"
                  ELSE /\ pc' = "a.checkHelp"
                       /\ UNCHANGED <<err, handled>>
    /\ UNCHANGED <<libVars, fixVars, osExits, hooks, cerr, panicking, parsed>>

\* checkHelp / checkVersion (application.go 134-143)
AppCheckHelp ==
    /\ pc = "a.checkHelp"
    /\ \E h \in {"none", "help", "helpOfUnknownCommand", "version"} :
          LET e == IF h = "helpOfUnknownCommand" THEN CommandNotFoundError ELSE Nil
          IN  IF h = "none"
              THEN /\ pc' = "a.dispatch"
                   /\ UNCHANGED <<err, handled>>
              ELSE /\ HandleExitCoder(e, "Application.Run")
                   /\ err' = IF Exits(e) THEN err ELSE e
                   /\ pc' = IF Exits(e) THEN "exited" ELSE "a.After"
    /\ UNCHANGED <<libVars, fixVars, osExits, hooks, cerr, panicking, parsed, calls, outcome>>

\* if c := context.Command; c != nil { err = c.Run(context) }
\* else { err = a.Action(context) } (application.go 145-149)
AppDispatch ==
    /\ pc = "a.dispatch"
    /\ \/ /\ pc' = "c.parseArgs"
          /\ UNCHANGED <<err, panicking, calls, outcome>>
       \/ \E o \in {"nil", "err"} :
             /\ Invoke("aAction", o)
             /\ err' = IF o = "err" THEN ActionError ELSE Nil
             /\ pc' = "a.HandleExitCoder"
             /\ UNCHANGED panicking
       \/ \E v \in ActionPanics :
             /\ Invoke("aAction", "panic")
             /\ panicking' = v
             /\ pc' = "a.After"
             /\ UNCHANGED err
    /\ UNCHANGED <<libVars, fixVars, osExits, hooks, cerr, parsed, handled>>

\* HandleExitCoder(err); return err (application.go 150-151)
AppHandleExitCoder ==
    /\ pc = "a.HandleExitCoder"
    /\ HandleExitCoder(err, "Application.Run")
    /\ pc' = IF Exits(err) THEN "exited" ELSE "a.After"
    /\ UNCHANGED <<libVars, fixVars, osExits, hooks, err, cerr, panicking, parsed, calls, outcome>>

\* the deferred After hook of Application.Run (application.go 105-115)
AppAfter ==
    /\ pc = "a.After"
    /\ IF ~hooks.aAfter
       THEN UNCHANGED <<err, calls, outcome>>
       ELSE \E o \in {"nil", "err"} :
               /\ Invoke("aAfter", o)
               /\ err' = IF o = "err" THEN afterResult(err, AfterError) ELSE err
    /\ pc' = "a.recover"
    /\ UNCHANGED <<libVars, fixVars, osExits, hooks, cerr, panicking, parsed, handled>>

\* the deferred recover of Application.Run (application.go 78-82), then
\* the return to the caller
AppRecover ==
    /\ pc = "a.recover"
    /\ IF panicking # NoPanic
       THEN /\ HandleExitCoder(WrapPanic(panicking), "recover")
            /\ panicking' = NoPanic
            /\ pc' = IF Exits(WrapPanic(panicking)) THEN "exited" ELSE "done"
       ELSE /\ pc' = "done"
            /\ UNCHANGED <<panicking, handled>>
    /\ UNCHANGED <<libVars, fixVars, osExits, hooks, err, cerr, parsed, calls, outcome>>

\* Command.Run returns e: err = c.Run(context)
CommandReturns(e) ==
    /\ err' = e
    /\ pc' = "a.HandleExitCoder"

\* c.parseArgs, checkFlagsValidity, checkRequiredArgs, checkCommandHelp
\* (Command.Run, part_010 120-137)
CmdParse ==
    /\ pc = "c.parseArgs"
    /\ \E p \in {"ok", "usage", "help"} :
          IF p = "usage"
          THEN /\ cerr' = IncorrectUsageError(NewError("command usage"))
               /\ CommandReturns(IncorrectUsageError(NewError("command usage")))
          ELSE IF p = "help"
          THEN /\ cerr' = Nil
               /\ CommandReturns(Nil)
          ELSE /\ pc' = "c.Before"
               /\ UNCHANGED <<err, cerr>>
    /\ UNCHANGED <<libVars, fixVars, osExits, hooks, panicking, parsed, calls, outcome, handled>>

\* if c.Before != nil { ... } (Command.Run, part_010 153-160)
CmdBefore ==
    /\ pc = "c.Before"
    /\ IF ~hooks.cBefore
       THEN /\ pc' = "c.Action"
            /\ UNCHANGED <<cerr, calls, outcome, handled>>
       ELSE \E o \in {"nil", "err"} :
               /\ Invoke("cBefore", o)
               /\ cerr' = IF o = "err" THEN CommandBeforeError ELSE Nil
               /\ IF o = "err"
                  THEN /\ HandleExitCoder(CommandBeforeError, "Command.Run")
                       /\ pc' = IF Exits(CommandBeforeError) THEN "exited" ELSE "c.After"
                  ELSE /\ pc' = "c.Action"
                       /\ UNCHANGED handled
    /\ UNCHANGED <<libVars, fixVars, osExits, hooks, err, panicking, parsed>>

\* a Command.Run that leaves the handling of the Action's error to its caller
CmdActionLeavesHandling ==
    /\ pc = "c.Action"
    /\ \/ \E o \in {"nil", "err"} :
             /\ Invoke("cAction", o)
             /\ cerr' = IF o = "err" THEN CommandActionError ELSE Nil
             /\ pc' = "c.After"
             /\ UNCHANGED <<panicking, handled>>
       \/ \E v \in ActionPanics :
             /\ Invoke("cAction", "panic")
             /\ panicking' = v
             /\ pc' = "c.After"
             /\ UNCHANGED <<cerr, handled>>
    /\ UNCHANGED <<libVars, fixVars, osExits, hooks, err, parsed>>

\* err = c.Action(context); if err != nil { HandleExitCoder(err) }; return err
\* (Command.Run, part_010 162-166)
CmdAction ==
    /\ pc = "c.Action"
    /\ \/ \E o \in {"nil", "err"} :
             LET e == IF o = "err" THEN CommandActionError ELSE Nil
             IN  /\ Invoke("cAction", o)
                 /\ cerr' = e
                 /\ HandleExitCoder(e, "Command.Run")
                 /\ pc' = IF Exits(e) THEN "exited" ELSE "c.After"
                 /\ UNCHANGED panicking
       \/ \E v \in ActionPanics :
             /\ Invoke("cAction", "panic")
             /\ panicking' = v
             /\ pc' = "c.After"
             /\ UNCHANGED <<cerr, handled>>
    /\ UNCHANGED <<libVars, fixVars, osExits, hooks, err, parsed>>

\* the deferred After hook of Command.Run (part_010 139-151), then the
\* return to Application.Run, or the panic going on into its deferred calls
CmdAfter ==
    /\ pc = "c.After"
    /\ \E o \in IF hooks.cAfter THEN {"nil", "err"} ELSE {"unset"} :
          LET exits == o = "err" /\ Exits(cerr)
              e     == IF o = "err" THEN afterResult(cerr, CommandAfterError) ELSE cerr
          IN  /\ IF o = "unset"
                 THEN UNCHANGED <<calls, outcome>>
                 ELSE Invoke("cAfter", o)
              /\ IF o = "err"
                 THEN HandleExitCoder(cerr, "Command.Run")
                 ELSE UNCHANGED handled
              /\ cerr' = IF exits THEN cerr ELSE e
              /\ IF exits
                 THEN pc' = "exited" /\ UNCHANGED err
                 ELSE IF panicking # NoPanic
                 THEN pc' = "a.After" /\ UNCHANGED err
                 ELSE CommandReturns(e)
    /\ UNCHANGED <<libVars, fixVars, osExits, hooks, panicking, parsed>>

NextRun ==
    \/ AppParse
    \/ AppBefore
    \/ AppCheckHelp
    \/ AppDispatch
    \/ AppHandleExitCoder
    \/ AppAfter
    \/ AppRecover
    \/ CmdParse
    \/ CmdBefore
    \/ CmdAction
    \/ CmdAfter

SpecRun == InitRun /\ [][NextRun]_vars

(* ---------------------------------------------------------------------- *)
(* Properties of the life cycle                                           *)
(* ---------------------------------------------------------------------- *)

\* e is x, or x is wrapped somewhere inside e
RECURSIVE Contains(_, _)
Contains(e, x) == e = x \/ \E i \in 1..Len(e.errs) : Contains(e.errs[i], x)

ParsedAndValid == parsed = [parse |-> "ok", validity |-> "valid"]

Finished == pc \in {"done", "exited"}

Callbacks == {"aBefore", "aAction", "aAfter", "cBefore", "cAction", "cAfter"}

\* C5: once parsing and validation have succeeded, the After hook of the
\* application, and that of the dispatched command when it has one, has
\* been invoked exactly once when Run finishes or the process exits through
\* OsExiter, whatever the Before hook and the Action did.
C5_AfterExactlyOnce ==
    (Finished /\ ParsedAndValid) =>
        /\ hooks.aAfter => calls.aAfter = 1
        /\ (hooks.cAfter /\ calls.cBefore + calls.cAction > 0) => calls.cAfter = 1

\* C6: when a Before hook returns an error, the Action of that level is
\* never invoked (nor, for the application's Before, any callback of the
\* command), and the error Run returns contains the Before error.
C6_BeforeErrorStopsAction ==
    /\ outcome.aBefore = "err" =>
          /\ calls.aAction = 0 /\ calls.cBefore = 0 /\ calls.cAction = 0
          /\ pc = "done" => Contains(err, BeforeError)
    /\ outcome.cBefore = "err" =>
          /\ calls.cAction = 0
          /\ pc = "done" => Contains(err, CommandBeforeError)

C6_Witness ==
    /\ pc = "done"
    /\ outcome.cBefore = "err"
    /\ outcome.cAfter = "err"
    /\ outcome.aAfter = "err"
    /\ calls.cAction = 0

\* C7: a panic of the Action is recovered by Application.Run and treated
\* like an error the Action returned: it does not reach the caller of Run,
\* the exit handler receives the wrapped panic, and Run returns a non-nil
\* error carrying it.
C7_PanicLikeError ==
    \A h \in {"aAction", "cAction"} :
        (pc = "done" /\ outcome[h] = "panic") =>
            /\ panicking = NoPanic
            /\ \E v \in ActionPanics :
                  /\ \E k \in 1..Len(handled) : handled[k].err = WrapPanic(v)
                  /\ err # Nil
                  /\ Contains(err, WrapPanic(v))

\* the errors the Before hooks and the Actions have returned
ReturnedErrors ==
    {e \in {BeforeError, ActionError, CommandBeforeError, CommandActionError} :
        \/ e = BeforeError /\ outcome.aBefore = "err"
        \/ e = ActionError /\ outcome.aAction = "err"
        \/ e = CommandBeforeError /\ outcome.cBefore = "err"
        \/ e = CommandActionError /\ outcome.cAction = "err"}

\* nothing but the After hook h went wrong
OnlyFailure(h, e) ==
    /\ \A g \in Callbacks \ {h} : outcome[g] \notin {"err", "panic"}
    /\ \A k \in 1..Len(handled) : handled[k].err = e

\* C8: when an After hook returns an error and a Before hook or an Action
\* has returned an error before, Run returns a MultiError containing both;
\* when nothing else went wrong, Run returns the After error itself.
C8_AfterErrorCombined ==
    pc = "done" =>
        /\ outcome.aAfter = "err" =>
              /\ \A e \in ReturnedErrors :
                    /\ err.kind = "MultiError"
                    /\ Contains(err, e)
                    /\ Contains(err, AfterError)
              /\ OnlyFailure("aAfter", AfterError) => err = AfterError
        /\ outcome.cAfter = "err" =>
              /\ \A e \in ReturnedErrors \cap {CommandBeforeError, CommandActionError} :
                    /\ err.kind = "MultiError"
                    /\ Contains(err, e)
                    /\ Contains(err, CommandAfterError)
              /\ OnlyFailure("cAfter", CommandAfterError) => err = CommandAfterError

\* TestApp_Run_DoesNotOverwriteErrorFromBefore
C8_Witness ==
    /\ pc = "done"
    /\ outcome.aBefore = "err"
    /\ outcome.aAfter = "err"
    /\ err = newMultiError(BeforeError, AfterError)

\* C9: when parsing or validating the application arguments fails, no
\* callback is invoked and the error Run returns is not nil.
C9_ParseFailureNoCallbacks ==
    (parsed.parse \in {"undefinedFlag", "requiredMissing"} \/ parsed.validity = "invalid") =>
        /\ \A h \in Callbacks : calls[h] = 0
        /\ pc = "done" => err # Nil

C9_Witness ==
    /\ pc = "done"
    /\ parsed.parse = "requiredMissing"
    /\ hooks.aBefore /\ hooks.aAfter
    /\ err.kind = "IncorrectUsageError"

CommandFailure(e) ==
    \/ e = CommandBeforeError /\ outcome.cBefore = "err"
    \/ e = CommandActionError /\ outcome.cAction = "err"

Exit(message, exitCode) ==
    [kind |-> "exitError", msg |-> message, errs |-> <<>>, stack |-> FALSE,
     exitCode |-> exitCode]

\* multiError(errs): the slice type behind newMultiError(errs...)
multiError(errs) ==
    [kind |-> "MultiError", msg |-> "", errs |-> errs, stack |-> FALSE]

\* the type assertion e.(ExitCoder): *exitError and *CommandNotFoundError
\* have an ExitCode method, a nil interface value has no type
ImplementsExitCoder(e) == e.kind \in {"exitError", "CommandNotFoundError"}

\* e.ExitCode()
ExitCode(e) == IF e.kind = "exitError" THEN e.exitCode ELSE 3

\* the type assertion e.(MultiError)
IsMultiError(e) == e.kind = "MultiError"

\* (*multiError).Errors(): make([]error, len(*m)) is a slice of len(*m) nil
\* errors, and every member is appended behind them
Errors(m) == [i \in 1..Len(m.errs) |-> Nil] \o m.errs

\* the messages HandleError(e) prints, in order
RECURSIVE HandleError(_)
HandleError(e) ==
    LET RECURSIVE Each(_)
        Each(s) == IF s = <<>> THEN <<>> ELSE HandleError(Head(s)) \o Each(Tail(s))
    IN  IF e = Nil THEN <<>>
        ELSE IF IsMultiError(e) THEN Each(Errors(e))
        ELSE IF e.msg # "" THEN <<e.msg>>
        ELSE <<>>

\* a handleExitCode that does not look at the members of a MultiError
handleExitCodeOwnCodeOnly(e) ==
    IF ImplementsExitCoder(e) THEN ExitCode(e) ELSE 1

\* handleExitCode(e)
handleExitCode(e) ==
    IF ImplementsExitCoder(e) THEN ExitCode(e)
    ELSE IF IsMultiError(e)
              /\ \E i \in 1..Len(Errors(e)) : ImplementsExitCoder(Errors(e)[i])
    THEN LET s == Errors(e)
             i == CHOOSE k \in 1..Len(s) :
                      /\ ImplementsExitCoder(s[k])
                      /\ \A j \in 1..(k - 1) : ~ImplementsExitCoder(s[j])
         IN  ExitCode(s[i])
    ELSE 1

\* the errors the calls are made on
Leaves == {NewError("wowsa"), NewError("egad"),
           Exit("galactic perimeter breach", 9), Exit("", 4)}
Members == Leaves \cup {multiError(<<Exit("inner", 7)>>)}
MultiErrors == {multiError(s) : s \in UNION {[1..n -> Members] : n \in 0..MaxErrs}}
ErrInputs == {Nil} \cup Leaves \cup MultiErrors

InitErr ==
    /\ ErrAlone
    /\ herr \in ErrInputs
    /\ exitCalls = <<>>
    /\ printed = <<>>
    /\ errsOut = <<>>
    /\ epc = "call"

\* HandleExitCoder(herr) with an OsExiter that records its argument
CallHandleExitCoder ==
    /\ epc = "call"
    /\ IF herr = Nil
       THEN UNCHANGED <<printed, exitCalls>>
       ELSE /\ printed' = printed \o HandleError(herr)
            /\ exitCalls' = Append(exitCalls, handleExitCode(herr))
    /\ epc' = "handled"
    /\ UNCHANGED <<ErrFrame, herr, errsOut>>

\* herr.Errors() on a MultiError
CallErrors ==
    /\ epc = "call"
    /\ IsMultiError(herr)
    /\ errsOut' = Errors(herr)
    /\ epc' = "copied"
    /\ UNCHANGED <<ErrFrame, herr, exitCalls, printed>>

NextErr ==
    \/ CallHandleExitCoder
    \/ CallErrors

SpecErr == InitErr /\ [][NextErr]_vars

(* ---------------------------------------------------------------------- *)
(* Claims on the exit handler and on MultiError                           *)
(* ---------------------------------------------------------------------- *)

\* the positions of the members of m, as it was built, that implement ExitCoder
CodedMembers(m) == {i \in 1..Len(m.errs) : ImplementsExitCoder(m.errs[i])}

C20_ErrorsIsCopy ==
    epc = "copied" => errsOut = herr.errs

(* ---------------------------------------------------------------------- *)
(* Command-name matching: setup, Application.Command, BestCommand         *)
(* ---------------------------------------------------------------------- *)

Capitals == "ABCDEFGHIJKLMNOPQRSTUVWXYZ"
Smalls == "abcdefghijklmnopqrstuvwxyz"

\* strings.ToLower(s)
RECURSIVE ToLower(_)
ToLower(s) ==
    IF s = "" THEN ""
    ELSE LET c == CharAt(s, 1)
             k == Index(Capitals, c)
         IN  (IF k >= 0 THEN CharAt(Smalls, k + 1) ELSE c)
                 \o ToLower(SubSeq(s, 2, Len(s)))

\* strings.ToUpper(s), used to write tokens in another case
RECURSIVE ToUpper(_)
ToUpper(s) ==
    IF s = "" THEN ""
    ELSE LET c == CharAt(s, 1)
             k == Index(Smalls, c)
         IN  (IF k >= 0 THEN CharAt(Capitals, k + 1) ELSE c)
                 \o ToUpper(SubSeq(s, 2, Len(s)))

\* (*Command).normalizeCommandNames()
normalizeCommandNames(c) ==
    [c EXCEPT !.Category = ToLower(c.Category),
              !.Name = ToLower(c.Name),
              !.Aliases = [i \in 1..Len(c.Aliases) |-> ToLower(c.Aliases[i])]]

\* Application.Command(name): the first command with exactly that name
AppCommand(cmds, name) ==
    LET exact == {i \in 1..Len(cmds) : HasName(cmds[i], name, TRUE)}
    IN  IF exact = {} THEN NoCommand
        ELSE cmds[CHOOSE i \in exact : \A j \in exact : i <= j]

\* a BestCommand that takes the first fuzzy match
BestCommandFirstMatch(cmds, name) ==
    LET n       == ToLower(name)
        matches == {i \in 1..Len(cmds) : HasName(cmds[i], n, FALSE)}
    IN  IF AppCommand(cmds, n) # NoCommand THEN AppCommand(cmds, n)
        ELSE IF matches # {}
             THEN cmds[CHOOSE i \in matches : \A j \in matches : i <= j]
             ELSE NoCommand

\* Application.BestCommand(name)
BestCommand(cmds, name) ==
    LET n       == ToLower(name)
        matches == {i \in 1..Len(cmds) : HasName(cmds[i], n, FALSE)}
    IN  IF AppCommand(cmds, n) # NoCommand THEN AppCommand(cmds, n)
        ELSE IF Cardinality(matches) = 1
             THEN cmds[CHOOSE i \in matches : TRUE]
             ELSE NoCommand

\* the findCommand closure of fixArgs, as the command it returns
FoundCommand(cmds, name) ==
    IF findCommand(cmds, name) = 0 THEN NoCommand ELSE cmds[findCommand(cmds, name)]

\* the applications of the tests
projectList == Declare("", "project:list", <<>>, FlagParsingNormal)
projectLink == Declare("", "project:link", <<>>, FlagParsingNormal)
projectLIST == Declare("", "project:LIST", <<"FOO">>, FlagParsingSkipped)
PROJECTlink == Declare("", "PROJECT:link", <<>>, FlagParsingNormal)
Applications ==
    { <<projectList, projectLink>>,
      <<projectLIST, PROJECTlink>>,
      <<Declare("Project", "List", <<>>, FlagParsingNormal), fooCmd, projectLink>> }

\* the tokens matched, as written in lower case
CommandTokens ==
    {"project:list", "project:link", "pro:list", "pro:lis", "p:lis", "p:li",
     "project:l", "project", "foo", "fo", "list", "ver", "help", "self:h", ":", ""}

\* a token written in some other case
CaseVariants(t) ==
    {t, ToUpper(t)}
        \cup {ToUpper(SubSeq(t, 1, k)) \o SubSeq(t, k + 1, Len(t)) : k \in 1..Len(t)}
        \cup {SubSeq(t, 1, k) \o ToUpper(SubSeq(t, k + 1, Len(t))) : k \in 1..Len(t)}

InitMatch ==
    /\ MatchAlone
    /\ commands \in Applications
    /\ isSetup = FALSE
    /\ token \in CommandTokens
    /\ variant \in CaseVariants(token)
    /\ bestOut = NotCalled
    /\ findOut = NotCalled

\* Application.setup(), as far as the commands go: the help command, then
\* the version command are put in front when no command has their name,
\* and every command gets its names in lower case
SetupCommands ==
    /\ ~isSetup
    /\ bestOut = NotCalled
    /\ findOut = NotCalled
    /\ LET withHelp == IF AppCommand(commands, helpCommand.Name) = NoCommand
                       THEN <<helpCommand>> \o commands ELSE commands
           withVersion == IF AppCommand(withHelp, versionCommand.Name) = NoCommand
                          THEN <<versionCommand>> \o withHelp ELSE withHelp
       IN  commands' = [i \in 1..Len(withVersion) |->
                            normalizeCommandNames(withVersion[i])]
    /\ isSetup' = TRUE
    /\ UNCHANGED <<MatchFrame, token, variant, bestOut, findOut>>

\* app.BestCommand(token) and app.BestCommand(variant)
CallBestCommand ==
    /\ bestOut = NotCalled
    /\ bestOut' = [name |-> "BestCommand",
                   token |-> BestCommand(commands, token),
                   variant |-> BestCommand(commands, variant)]
    /\ UNCHANGED <<MatchFrame, commands, isSetup, token, variant, findOut>>

\* findCommand(token) and findCommand(variant) in app.fixArgs, which Run
\* calls after setup
CallFindCommand ==
    /\ isSetup
    /\ findOut = NotCalled
    /\ findOut' = [name |-> "findCommand",
                   token |-> FoundCommand(commands, token),
                   variant |-> FoundCommand(commands, variant)]
    /\ UNCHANGED <<MatchFrame, commands, isSetup, token, variant, bestOut>>

NextMatch ==
    \/ SetupCommands
    \/ CallBestCommand
    \/ CallFindCommand

SpecMatch == InitMatch /\ [][NextMatch]_vars

(* ---------------------------------------------------------------------- *)
(* Claims on command-name matching                                        *)
(* ---------------------------------------------------------------------- *)

\* the full name and the aliases of a command
Possibilities(c) == {FullName(c)} \cup {c.Aliases[i] : i \in 1..Len(c.Aliases)}

\* the segments of p are prefixed, position by position, by those of t
SegmentsPrefixed(t, p) ==
    /\ Len(Split(t, ":")) = Len(Split(p, ":"))
    /\ \A i \in 1..Len(Split(t, ":")) :
           /\ Len(Split(t, ":")[i]) <= Len(Split(p, ":")[i])
           /\ SubSeq(Split(p, ":")[i], 1, Len(Split(t, ":")[i])) = Split(t, ":")[i]

\* the commands with a full name or alias matching t that way
FuzzyCandidates(t) ==
    {i \in 1..Len(commands) : \E p \in Possibilities(commands[i]) : SegmentsPrefixed(t, p)}

\* C12: when no command matches a token exactly, BestCommand returns a command
\* only if it is the single command having a full name or alias whose
\* colon-separated segments are each prefixed, position by position, by the
\* token's segments, and nil if none or more than one matches this way; with
\* only project:list and project:link declared, pro:list and p:lis resolve to
\* project:list while project:l and p:li resolve to nothing.
C12_UniqueFuzzyMatch ==
    bestOut # NotCalled =>
        /\ (\A i \in 1..Len(commands) : ToLower(token) \notin Possibilities(commands[i]))
               => \/ /\ Cardinality(FuzzyCandidates(ToLower(token))) = 1
                     /\ \E i \in FuzzyCandidates(ToLower(token)) : bestOut.token = commands[i]
                  \/ /\ Cardinality(FuzzyCandidates(ToLower(token))) # 1
                     /\ bestOut.token = NoCommand
        /\ commands = <<projectList, projectLink>>
               => /\ token \in {"pro:list", "p:lis"} => bestOut.token = projectList
                  /\ token \in {"project:l", "p:li"} => bestOut.token = NoCommand

\* the ambiguous p:li and the unique p:lis have both been looked up on the two
\* project commands
C12_Witness ==
    /\ bestOut # NotCalled
    /\ commands = <<projectList, projectLink>>
    /\ \/ token = "p:lis" /\ bestOut.token = projectList
       \/ token = "p:li" /\ bestOut.token = NoCommand

\* C13: once the application is set up, for any token and any case variant of
\* it BestCommand and the command matcher of the application-level reordering
\* pass both resolve the variant to the same command as the original, so that
\* the command whose parsing mode governs the reordering is the one dispatched.
C13_CaseInsensitive ==
    (isSetup /\ bestOut # NotCalled /\ findOut # NotCalled) =>
        /\ bestOut.variant = bestOut.token
        /\ findOut.variant = findOut.token
        /\ findOut.variant = bestOut.variant

\* BestCommand alone resolves every case variant like the original
C13_BestCommandCaseInsensitive ==
    (isSetup /\ bestOut # NotCalled) => bestOut.variant = bestOut.token

\* on tokens written in lower case the two matchers agree
C13_MatchersAgreeOnLowerCase ==
    (isSetup /\ bestOut # NotCalled /\ findOut # NotCalled) =>
        findOut.token = bestOut.token

(* ---------------------------------------------------------------------- *)
(* Context: Lineage, lookupRawFlag and the typed accessors                *)
(* ---------------------------------------------------------------------- *)

\* NewContext(app, set, parent) with Command set to a command with these
\* flags (no flags: no command); set declares the names of formal with the
\* given values and has the names of actual marked as set
Context(commandFlags, appFlags, formal, actual) ==
    [CommandFlags |-> commandFlags, AppFlags |-> appFlags,
     flagSet |-> [formal |-> formal, actual |-> actual]]

\* flag.FlagSet.Lookup(name): <<value>>, or <<>> for nil
Lookup(set, name) ==
    IF name \in DOMAIN set.formal THEN <<set.formal[name]>> ELSE <<>>

\* a lookupRawFlag that looks in the current context only
lookupRawFlagCurrentOnly(name, ctxs) ==
    IF ctxs = <<>> THEN <<>>
    ELSE LET c == Head(ctxs)
         IN  Lookup(c.flagSet,
                    expandShortcut(c.AppFlags, expandShortcut(c.CommandFlags, name)))

\* lookupRawFlag(name, ctx) on ctx.Lineage(): the name is expanded with the
\* flags of each context in turn and looked up in that context's flag set
RECURSIVE lookupRawFlag(_, _)
lookupRawFlag(name, ctxs) ==
    IF ctxs = <<>> THEN <<>>
    ELSE LET c == Head(ctxs)
             n == expandShortcut(c.AppFlags, expandShortcut(c.CommandFlags, name))
         IN  IF Lookup(c.flagSet, n) # <<>>
             THEN Lookup(c.flagSet, n)
             ELSE lookupRawFlag(n, Tail(ctxs))

\* Context.Int(name): 0 when no flag is found
ContextInt(name, ctxs) ==
    IF lookupRawFlag(name, ctxs) # <<>> THEN lookupRawFlag(name, ctxs)[1] ELSE 0

\* the flag names the flag sets declare, the alias and an undeclared name
FlagNames == {"myflag", "other"}
AskedNames == FlagNames \cup {"m", "bogus"}

\* the value the flag sets of the i-th context give their flags
LevelValue(i) == 12 + 30 * (i - 1)

\* the flags of the command of a context: none, or one flag with alias m
CommandFlagsChoices ==
    {<<>>, <<IntFlag("myflag", <<"m">>)>>, <<IntFlag("other", <<"m">>)>>}

\* the contexts that can stand at place i of a lineage
ContextsAt(i) ==
    {Context(cf, <<>>, [n \in names |-> LevelValue(i)], {}) :
         cf \in CommandFlagsChoices, names \in SUBSET FlagNames}

Lineages ==
    UNION {{l \in [1..d -> UNION {ContextsAt(i) : i \in 1..d}] :
                \A i \in 1..d : l[i] \in ContextsAt(i)} : d \in 1..MaxDepth}

InitLookup ==
    /\ LookupAlone
    /\ lineage \in Lineages
    /\ asked \in AskedNames
    /\ answer = <<>>

\* ctx.Int(asked) on the current context
CallInt ==
    /\ answer = <<>>
    /\ answer' = <<ContextInt(asked, lineage)>>
    /\ UNCHANGED <<LookupFrame, lineage, asked>>

NextLookup == CallInt

SpecLookup == InitLookup /\ [][NextLookup]_vars

(* ---------------------------------------------------------------------- *)
(* Claims on flag lookup                                                  *)
(* ---------------------------------------------------------------------- *)

\* the contexts of the lineage, from place k on, whose flag set declares n
DeclaringFrom(k, n) ==
    {i \in k..Len(lineage) : n \in DOMAIN lineage[i].flagSet.formal}

\* the value of n in the first of them, the zero value if there is none
FirstDeclared(k, n) ==
    IF DeclaringFrom(k, n) = {} THEN 0
    ELSE lineage[CHOOSE i \in DeclaringFrom(k, n) :
                     \A j \in DeclaringFrom(k, n) : i <= j].flagSet.formal[n]

\* the contexts whose command declares `alias` as an alias
Expanding(alias) ==
    {i \in 1..Len(lineage) :
         \E k \in 1..Len(lineage[i].CommandFlags) :
             \E a \in 1..Len(lineage[i].CommandFlags[k].Aliases) :
                 lineage[i].CommandFlags[k].Aliases[a] = alias}

\* C14: a typed accessor walks the lineage from the current context to the
\* root and stops at the first scope whose flag set declares the name: it
\* returns the child's value when child and parent both declare it, the
\* parent's value when only the parent does, the zero value when no scope
\* does; an alias is looked up under the canonical name from the first scope
\* on whose command declares the alias.
C14_FirstDeclaringScope ==
    answer # <<>> =>
        IF asked \in FlagNames \cup {"bogus"}
        THEN answer[1] = FirstDeclared(1, asked)
        ELSE IF Expanding(asked) = {} THEN answer[1] = 0
        ELSE LET k == CHOOSE i \in Expanding(asked) : \A j \in Expanding(asked) : i <= j
                 f == lineage[k].CommandFlags[1]
             IN  answer[1] = FirstDeclared(k, f.Name)

\* child and parent both declare myflag and the child's value came back
C14_Witness ==
    /\ answer = <<12>>
    /\ asked = "myflag"
    /\ Len(lineage) >= 2
    /\ "myflag" \in DOMAIN lineage[1].flagSet.formal
    /\ "myflag" \in DOMAIN lineage[2].flagSet.formal

(* ---------------------------------------------------------------------- *)
(* Parsing the flags of one scope: parseArgs, parseFlagsFromEnv,          *)
(* checkRequiredFlags, checkFlagsValidity, Context.IsSet                  *)
(* ---------------------------------------------------------------------- *)

\* &StringFlag{Name, Aliases, EnvVars, Required, Validator}; Validates says
\* whether a Validator is set and Rejects which values it returns an error for
EnvFlag(name, aliases, envVars, required, validates, rejects) ==
    [Name |-> name, Aliases |-> aliases, Kind |-> "StringFlag", ShortAlias |-> "",
     EnvVars |-> envVars, Required |-> required,
     Validates |-> validates, Rejects |-> rejects, DefaultValue |-> ""]

\* the i-th of s becomes the (Len(s)+1-i)-th
Reverse(s) == [i \in 1..Len(s) |-> s[Len(s) + 1 - i]]

\* strings.Replace(s, old, new, -1) for one-character old and new
RECURSIVE Replace(_, _, _)
Replace(s, old, new) ==
    IF s = "" THEN ""
    ELSE (IF CharAt(s, 1) = old THEN new ELSE CharAt(s, 1))
             \o Replace(SubSeq(s, 2, Len(s)), old, new)

\* the variable name parseFlagsFromEnv derives from a prefix
PrefixedName(prefix, fName) == ToUpper(Replace(prefix \o "_" \o fName, "-", "_"))

\* os.Getenv(name)
Getenv(e, name) == IF name \in DOMAIN e THEN e[name] ELSE ""

\* flagSet(fsName, flags): every flag applied under its canonical name with
\* its default value, nothing set
flagSet(fls) ==
    [formal |-> [n \in {fls[i].Name : i \in 1..Len(fls)} |->
                     (CHOOSE f \in {fls[i] : i \in 1..Len(fls)} : f.Name = n).DefaultValue],
     actual |-> {}]

\* flag.FlagSet.Set(name, value): the value is stored and the flag is
\* marked as set
Set(set, name, value) ==
    [formal |-> [set.formal EXCEPT ![name] = value],
     actual |-> set.actual \cup {name}]

\* flag.FlagSet.Parse over the flags of the command line: an undeclared
\* name stops the parse with an error, what was read before stays set
RECURSIVE Parse(_, _)
Parse(set, pairs) ==
    IF pairs = <<>> THEN [set |-> set, err |-> NoParseError]
    ELSE IF Head(pairs)[1] \notin DOMAIN set.formal
    THEN [set |-> set, err |-> [kind |-> "flag provided but not defined",
                                flag |-> Head(pairs)[1]]]
    ELSE Parse(Set(set, Head(pairs)[1], Head(pairs)[2]), Tail(pairs))

\* the names parseFlagsFromEnv reads for f, in the order it reads them:
\* EnvVars, then one name per prefix, the whole reversed
envVariableNames(prefs, f) ==
    Reverse(f.EnvVars \o [k \in 1..Len(prefs) |-> PrefixedName(prefs[k], f.Name)])

\* an inner loop that stops at the first variable that is set
SetFromEnvFirstRead(set, fName, names, e) ==
    LET hits == {k \in 1..Len(names) : Getenv(e, names[k]) # ""}
    IN  IF hits = {} THEN set
        ELSE Set(set, fName,
                 Getenv(e, names[CHOOSE k \in hits : \A j \in hits : k <= j]))

\* the inner loop of parseFlagsFromEnv: every non-empty variable is Set in
\* turn, so the last one read stays
RECURSIVE SetFromEnv(_, _, _, _)
SetFromEnv(set, fName, names, e) ==
    IF names = <<>> THEN set
    ELSE SetFromEnv(IF Getenv(e, Head(names)) = "" THEN set
                    ELSE Set(set, fName, Getenv(e, Head(names))),
                    fName, Tail(names), e)

\* parseFlagsFromEnv(prefixes, flags, fs), the flag set it leaves: the flags
\* set on the command line are skipped (definedFlags is taken before the loop)
RECURSIVE parseFlagsFromEnv(_, _, _, _)
parseFlagsFromEnv(prefs, fls, set, e) ==
    IF fls = <<>> THEN set
    ELSE LET f == Head(fls)
         IN  parseFlagsFromEnv(prefs, Tail(fls),
                 IF f.Name \in set.actual THEN set
                 ELSE SetFromEnv(set, f.Name, envVariableNames(prefs, f), e), e)

\* parseFlagsFromEnv, the declarations it leaves: envVariableNames is the
\* flag's own EnvVars slice; with no prefix nothing is appended and the
\* reversal is done in that slice, with a prefix append copies a slice
\* written as a literal (capacity = length) and EnvVars is left alone
EnvVarsAfter(prefs, fls, definedFlags) ==
    [i \in 1..Len(fls) |->
        IF fls[i].Name \in definedFlags \/ prefs # <<>>
        THEN fls[i]
        ELSE [fls[i] EXCEPT !.EnvVars = Reverse(fls[i].EnvVars)]]

\* checkRequiredFlags(flags, set)
checkRequiredFlags(fls, set) ==
    LET missing == {i \in 1..Len(fls) :
                        fls[i].Required /\ fls[i].Name \notin set.actual}
    IN  IF missing = {} THEN NoParseError
        ELSE [kind |-> "Required flag is not set",
              flag |-> fls[CHOOSE i \in missing : \A j \in missing : i <= j].Name]

\* the flags checkFlagsValidity calls Validate on: the visited ones in
\* declaration order, up to and including the first whose Validator fails
VisitedInOrder(fls, set) ==
    LET RECURSIVE Walk(_)
        Walk(i) ==
            IF i > Len(fls) THEN <<>>
            ELSE IF fls[i].Name \notin set.actual THEN Walk(i + 1)
            ELSE IF fls[i].Validates /\ set.formal[fls[i].Name] \in fls[i].Rejects
            THEN <<i>>
            ELSE <<i>> \o Walk(i + 1)
    IN  Walk(1)

\* the Validators checkFlagsValidity(flags, set, c) invokes, by flag name
ValidatorCalls(fls, set) ==
    LET v == VisitedInOrder(fls, set)
    IN  [k \in 1..Len(SelectSeq(v, LAMBDA i : fls[i].Validates)) |->
            fls[SelectSeq(v, LAMBDA i : fls[i].Validates)[k]].Name]

\* the error checkFlagsValidity(flags, set, c) returns
checkFlagsValidity(fls, set) ==
    LET v == VisitedInOrder(fls, set)
    IN  IF v # <<>>
           /\ fls[v[Len(v)]].Validates
           /\ set.formal[fls[v[Len(v)]].Name] \in fls[v[Len(v)]].Rejects
        THEN [kind |-> "invalid value for flag", flag |-> fls[v[Len(v)]].Name]
        ELSE NoParseError

\* lookupFlagSet(name, ctx): the place in the lineage of the context whose
\* flag set declares the name, 0 for nil
RECURSIVE lookupFlagSet(_, _)
lookupFlagSet(name, ctxs) ==
    IF ctxs = <<>> THEN 0
    ELSE LET c == Head(ctxs)
             n == expandShortcut(c.AppFlags, expandShortcut(c.CommandFlags, name))
         IN  IF Lookup(c.flagSet, n) # <<>> THEN 1
             ELSE IF lookupFlagSet(n, Tail(ctxs)) = 0 THEN 0
             ELSE 1 + lookupFlagSet(n, Tail(ctxs))

\* an IsSet that only asks whether a flag set declares the name
IsSetWhenDeclared(name, ctxs) == lookupFlagSet(name, ctxs) # 0

\* Context.IsSet(name): fs.Visit compares the names of the flags that have
\* been set with the name as it was given; the loop over EnvVars that
\* follows ends in `return false` whatever the environment holds
IsSet(name, ctxs) ==
    /\ lookupFlagSet(name, ctxs) # 0
    /\ name \in ctxs[lookupFlagSet(name, ctxs)].flagSet.actual

\* the flags of the scope: foo, count with two variables, and bar
Declarations ==
    {<<EnvFlag("foo", <<>>, <<>>, FALSE, TRUE, {}),
       EnvFlag("count", <<"c">>, <<"COMPAT_COUNT", "APP_COUNT">>, r1, v1, {"toto"}),
       EnvFlag("bar", <<>>, <<>>, r2, TRUE, {"toto"})>> :
         r1 \in BOOLEAN, r2 \in BOOLEAN, v1 \in BOOLEAN}

\* the flags a command line can carry
GivenFlags ==
    {<<"foo", "bar">>, <<"count", "20">>, <<"count", "toto">>,
     <<"bar", "bar">>, <<"bar", "toto">>, <<"bogus", "1">>}
CommandLines == UNION {[1..n -> GivenFlags] : n \in 0..MaxGiven}

\* the environments: PRE_COUNT can only matter when PRE is a prefix
Environments ==
    {[COMPAT_COUNT |-> a, APP_COUNT |-> b, PRE_COUNT |-> c] :
         a \in {"", "compat", "toto"}, b \in {"", "app"}, c \in {"", "pre"}}

\* the context Run builds on the flag set of the scope
ScopeContext ==
    Context(IF level = "cmd" THEN declared ELSE <<>>,
            IF level = "app" THEN declared ELSE <<>>,
            fs.formal, fs.actual)

InitParse ==
    /\ ParseAlone
    /\ level \in {"app", "cmd"}
    /\ written \in Declarations
    /\ declared = written
    /\ atParse = written
    /\ prefixes \in {<<>>, <<"PRE">>}
    /\ environ \in Environments
    /\ prefixes = <<>> => environ.PRE_COUNT = ""
    /\ given \in CommandLines
    /\ fs = NoFlagSet
    /\ perr = NoParseError
    /\ verr = NoParseError
    /\ validated = <<>>
    /\ result = NoParseError
    /\ runs = 1
    /\ ppc = "parseArgs"
    /\ isSetAsked = ""
    /\ isSetOut = <<>>

\* Application.parseArgs / Command.parseArgs: flagSet, flag.Parse, then,
\* unless the parse failed, parseFlagsFromEnv and checkRequiredFlags.
\* Application.Run goes on to checkFlagsValidity whatever the error;
\* Command.Run only when there is none
ParseArgs ==
    /\ ppc = "parseArgs"
    /\ LET p == Parse(flagSet(declared), given)
       IN  /\ atParse' = declared
           /\ IF p.err # NoParseError
              THEN /\ fs' = p.set
                   /\ perr' = p.err
                   /\ UNCHANGED declared
              ELSE /\ fs' = parseFlagsFromEnv(prefixes, declared, p.set, environ)
                   /\ declared' = EnvVarsAfter(prefixes, declared, p.set.actual)
                   /\ perr' = checkRequiredFlags(declared, fs')
    /\ ppc' = IF level = "app" \/ perr' = NoParseError
              THEN "checkFlagsValidity" ELSE "return"
    /\ UNCHANGED <<ParseFrame, level, written, prefixes, environ, given, verr,
                   validated, result, runs, isSetAsked, isSetOut>>

\* checkFlagsValidity(fls, set, context)
CheckFlagsValidity ==
    /\ ppc = "checkFlagsValidity"
    /\ validated' = validated \o ValidatorCalls(declared, fs)
    /\ verr' = checkFlagsValidity(declared, fs)
    /\ ppc' = "return"
    /\ UNCHANGED <<ParseFrame, level, written, declared, atParse, prefixes, environ,
                   given, fs, perr, result, runs, isSetAsked, isSetOut>>

\* what Run does with the two errors: Application.Run returns the validity
\* error as it is and otherwise wraps the parse error in a usage error;
\* Command.Run (for a command without declared arguments) wraps whichever
\* it has; with no error Run goes on with the context
ReturnOrGoOn ==
    /\ ppc = "return"
    /\ result' = IF verr # NoParseError
                 THEN IF level = "app" THEN verr
                      ELSE [kind |-> "IncorrectUsageError", flag |-> verr.flag]
                 ELSE IF perr # NoParseError
                 THEN [kind |-> "IncorrectUsageError", flag |-> perr.flag]
                 ELSE NoParseError
    /\ ppc' = IF result' = NoParseError THEN "context" ELSE "returned"
    /\ UNCHANGED <<ParseFrame, level, written, declared, atParse, prefixes, environ,
                   given, fs, perr, verr, validated, runs, isSetAsked, isSetOut>>

\* context.IsSet(name) in a callback
CallIsSet ==
    /\ ppc = "context"
    /\ isSetOut = <<>>
    /\ \E name \in {"foo", "count", "c", "bar", "bogus"} :
           /\ isSetAsked' = name
           /\ isSetOut' = <<IsSet(name, <<ScopeContext>>)>>
    /\ UNCHANGED <<ParseFrame, level, written, declared, atParse, prefixes, environ,
                   given, fs, perr, verr, validated, result, runs, ppc>>

\* the same application is run again with the same arguments and environment
RunAgain ==
    /\ ppc \in {"context", "returned"}
    /\ runs < MaxRuns
    /\ runs' = runs + 1
    /\ ppc' = "parseArgs"
    /\ fs' = NoFlagSet
    /\ perr' = NoParseError
    /\ verr' = NoParseError
    /\ validated' = <<>>
    /\ result' = NoParseError
    /\ isSetAsked' = ""
    /\ isSetOut' = <<>>
    /\ UNCHANGED <<ParseFrame, level, written, declared, atParse, prefixes, environ, given>>

NextParse ==
    \/ ParseArgs
    \/ CheckFlagsValidity
    \/ ReturnOrGoOn
    \/ CallIsSet
    \/ RunAgain

SpecParse == InitParse /\ [][NextParse]_vars

(* ---------------------------------------------------------------------- *)
(* Claims on flag validation, IsSet and the environment                   *)
(* ---------------------------------------------------------------------- *)

\* the names of the flags written on the command line
OnCommandLine == {given[k][1] : k \in 1..Len(given)}

\* the place of the flag with that canonical name among the declarations
PlaceOf(name) == CHOOSE i \in 1..Len(written) : written[i].Name = name

\* flag.Parse of this run has passed, so the environment has been read
EnvironmentRead ==
    ppc # "parseArgs" /\ perr.kind # "flag provided but not defined"

\* the names the flag at place i reads from the environment, as its
\* declaration stood when parsing began: EnvVars, then the prefixed names
NamesListed(i) ==
    atParse[i].EnvVars
        \o [k \in 1..Len(prefixes) |-> PrefixedName(prefixes[k], atParse[i].Name)]

\* those of them that are set to a non-empty value
NamesSet(i) == {k \in 1..Len(NamesListed(i)) : Getenv(environ, NamesListed(i)[k]) # ""}

\* what the validators must have done once checkFlagsValidity has run: one
\* call per visited flag with a Validator, in declaration order, up to the
\* first that fails
ExpectedValidations ==
    LET visited == {i \in 1..Len(declared) :
                        declared[i].Validates /\ declared[i].Name \in fs.actual}
        failing == {i \in visited : fs.formal[declared[i].Name] \in declared[i].Rejects}
        run     == {i \in visited : \A j \in failing : i <= j}
    IN  /\ Len(validated) = Cardinality(run)
        /\ \A k \in 1..Len(validated) :
               /\ PlaceOf(validated[k]) \in run
               /\ Cardinality({i \in run : i < PlaceOf(validated[k])}) = k - 1
        /\ failing # {} =>
               /\ verr.kind = "invalid value for flag"
               /\ \A j \in failing : PlaceOf(verr.flag) <= j
               /\ PlaceOf(verr.flag) \in failing

\* C15: per-flag validators run only after the required-flag check has
\* passed, once for each explicitly visited flag and in flag declaration
\* order, and the first failing validator's error is returned wrapped with the
\* flag's canonical name, for application flags as well as for command flags.
C15_ValidatorsAfterRequired ==
    /\ validated # <<>> => perr.kind # "Required flag is not set"
    /\ (ppc \in {"return", "context", "returned"} /\ perr = NoParseError)
           => ExpectedValidations
    /\ (ppc \in {"context", "returned"} /\ perr = NoParseError /\ verr # NoParseError)
           => result.flag = verr.flag

\* the same, for the flags of a command only
C15_CommandValidatorsAfterRequired ==
    level = "cmd" => C15_ValidatorsAfterRequired

\* C17: Context.IsSet(name) returns true only for flags supplied on the
\* command line; for a flag not on the command line whose value was taken from
\* an environment variable during parsing it returns false.
C17_Original ==
    isSetOut = <<TRUE>> => isSetAsked \in OnCommandLine

\* C17, amended: for the canonical name of a declared flag, IsSet returns
\* true exactly when the flag was supplied on the command line or took its
\* value from a non-empty environment variable during parsing.
C17_IsSetCountsEnvironment ==
    (isSetOut # <<>> /\ isSetAsked \in {"foo", "count", "bar"}) =>
        (isSetOut[1] <=> \/ isSetAsked \in OnCommandLine
                         \/ NamesSet(PlaceOf(isSetAsked)) # {})

\* count was not on the command line, took its value from the environment,
\* and IsSet("count") has returned true
C17_Witness ==
    /\ isSetOut = <<TRUE>>
    /\ isSetAsked = "count"
    /\ "count" \notin OnCommandLine
    /\ fs.formal["count"] \in {"compat", "app", "pre"}

Arg(name, default, optional, slice) ==
    [Name |-> name, Default |-> default, Optional |-> optional, Slice |-> slice]

\* checkArgsModes(args) returns without a panic: no name twice, nothing
\* after a slice argument, no required argument after an optional one
checkArgsModes(defs) ==
    \A i \in 1..Len(defs) :
        \A j \in 1..(i - 1) :
            /\ defs[j].Name # defs[i].Name
            /\ ~defs[j].Slice
            /\ ~(defs[j].Optional /\ ~defs[i].Optional)

\* (*args).Get(name) for args of a command
ArgsGet(defs, vals, name) ==
    LET named == {i \in 1..Len(defs) : defs[i].Name = name /\ ~defs[i].Slice}
        i == CHOOSE k \in named : \A j \in named : k <= j
    IN  IF named = {} THEN ""
        ELSE IF Len(vals) >= i THEN vals[i]
        ELSE defs[i].Default

\* (*args).Tail() for args of a command
ArgsTail(defs, vals) ==
    LET slices == {i \in 1..Len(defs) : defs[i].Slice}
        i == CHOOSE k \in slices : \A j \in slices : k <= j
    IN  IF slices = {} THEN <<>>
        ELSE IF Len(vals) >= i THEN SubSeq(vals, i, Len(vals))
        ELSE <<>>

\* the nil error of checkRequiredArgs and the two errors it builds
NoArgError == [kind |-> "nil", arg |-> ""]
RequiredArgError(name) == [kind |-> "Required argument is not set", arg |-> name]
TooManyArguments == [kind |-> "Too many arguments", arg |-> ""]

\* checkRequiredArgs(command, context)
checkRequiredArgs(defs, vals) ==
    LET RECURSIVE Loop(_, _, _)
        Loop(i, hasSliceArgument, maximumArgsLen) ==
            IF i > Len(defs)
            THEN IF ~hasSliceArgument /\ Len(vals) > maximumArgsLen
                 THEN TooManyArguments ELSE NoArgError
            ELSE LET arg == defs[i]
                     hs  == hasSliceArgument \/ arg.Slice
                     ml  == IF arg.Slice THEN maximumArgsLen ELSE maximumArgsLen + 1
                 IN  IF arg.Optional THEN Loop(i + 1, hs, ml)
                     ELSE IF arg.Slice
                     THEN IF Len(ArgsTail(defs, vals)) < 1
                          THEN RequiredArgError(arg.Name)
                          ELSE IF ~hs /\ Len(vals) > ml
                               THEN TooManyArguments ELSE NoArgError
                     ELSE IF ArgsGet(defs, vals, arg.Name) = ""
                          THEN RequiredArgError(arg.Name)
                          ELSE Loop(i + 1, hs, ml)
    IN  Loop(1, FALSE, 0)

\* the arguments a command can declare: the i-th is named after its place
ArgNames == <<"file", "dest", "more", "rest">>
ArgsAt(i) ==
    {Arg(ArgNames[i], d, o, s) : d \in {"", "def"}, o \in BOOLEAN, s \in BOOLEAN}
ArgDeclarations ==
    UNION {{l \in [1..n -> UNION {ArgsAt(i) : i \in 1..n}] :
                /\ \A i \in 1..n : l[i] \in ArgsAt(i)
                /\ checkArgsModes(l)} : n \in 0..MaxArgDefs}

\* the positional tokens of a command line, the empty string among them
PositionalLines == UNION {[1..n -> {"x", ""}] : n \in 0..MaxArgs}

InitReq ==
    /\ ReqAlone
    /\ argDefs \in ArgDeclarations
    /\ positionals \in PositionalLines
    /\ argErr = <<>>

\* checkRequiredArgs(c, context) in Command.Run
CallCheckRequiredArgs ==
    /\ argErr = <<>>
    /\ argErr' = <<checkRequiredArgs(argDefs, positionals)>>
    /\ UNCHANGED <<ReqFrame, argDefs, positionals>>

NextReq == CallCheckRequiredArgs

SpecReq == InitReq /\ [][NextReq]_vars

(* ---------------------------------------------------------------------- *)
(* Claims on required arguments                                           *)
(* ---------------------------------------------------------------------- *)

\* the declared non-optional, non-slice arguments without a positional
\* token at their index
Unfilled ==
    {i \in 1..Len(argDefs) :
         ~argDefs[i].Optional /\ ~argDefs[i].Slice /\ Len(positionals) < i}

\* C16: checkRequiredArgs returns a usage error naming the argument exactly
\* when a declared non-optional, non-slice argument has no positional token
\* at its index; a command with one such argument invoked with zero
\* positionals always gets that error.
C16_RequiredArgs ==
    argErr # <<>> =>
        /\ Unfilled # {} <=>
               /\ argErr[1].kind = "Required argument is not set"
               /\ \E i \in Unfilled : argErr[1].arg = argDefs[i].Name
        /\ (Len(argDefs) = 1 /\ Unfilled = {1} /\ positionals = <<>>)
               => argErr[1] = RequiredArgError(argDefs[1].Name)

\* the same, for arguments declared without a default and command lines
\* without an empty-string token
C16_WithoutDefaultsAndEmptyTokens ==
    (/\ \A i \in 1..Len(argDefs) : argDefs[i].Default = ""
     /\ \A k \in 1..Len(positionals) : positionals[k] # "")
        => C16_RequiredArgs

(* ---------------------------------------------------------------------- *)
(* Flag unicity: checkFlagsUnicity in setup, flagSet in parseArgs          *)
(* ---------------------------------------------------------------------- *)

\* the names of a list of flags, with repetitions, in declaration order
RECURSIVE AllNames(_)
AllNames(fls) ==
    IF fls = <<>> THEN <<>> ELSE Names(Head(fls)) \o AllNames(Tail(fls))

\* checkFlagsUnicity(appFlags, cmdFlags, commandName) panics: a name of a
\* command flag is a name of an application flag
checkFlagsUnicityPanics(aFlags, cFlags) ==
    \E i \in 1..Len(AllNames(cFlags)) :
        \E j \in 1..Len(AllNames(aFlags)) :
            AllNames(cFlags)[i] = AllNames(aFlags)[j]

\* flagSet(fsName, flags) panics: a name comes twice among the names of
\* the flags
flagSetPanics(fls) ==
    \E i \in 1..Len(AllNames(fls)) :
        \E j \in 1..(i - 1) : AllNames(fls)[i] = AllNames(fls)[j]

\* the flags a scope can declare
FlagPool == {StringFlag("x", <<>>), StringFlag("y", <<"x">>), StringFlag("z", <<>>)}
FlagLists == UNION {[1..n -> FlagPool] : n \in 0..MaxFlagDefs}

InitUni ==
    /\ UniAlone
    /\ applicationFlags \in FlagLists
    /\ cmdFlags \in [1..2 -> FlagLists]
    /\ invoked \in 0..2
    /\ upc = "setup"
    /\ panicAt = ""
    /\ reached = <<>>

\* Application.setup(): checkFlagsUnicity for every declared command
Setup ==
    /\ upc = "setup"
    /\ IF \E c \in 1..Len(cmdFlags) : checkFlagsUnicityPanics(applicationFlags, cmdFlags[c])
       THEN /\ upc' = "panicked"
            /\ panicAt' = "setup"
            /\ UNCHANGED reached
       ELSE /\ upc' = "app.parseArgs"
            /\ reached' = Append(reached, "setup")
            /\ UNCHANGED panicAt
    /\ UNCHANGED <<UniFrame, applicationFlags, cmdFlags, invoked>>

\* a.parseArgs(arguments[1:]): the arguments are reordered, then
\* flagSet(app.Name, app.Flags) is built, then they are parsed
UniAppParseArgs ==
    /\ upc = "app.parseArgs"
    /\ IF flagSetPanics(applicationFlags)
       THEN /\ upc' = "panicked"
            /\ panicAt' = "app.parseArgs"
            /\ UNCHANGED reached
       ELSE /\ upc' = "dispatch"
            /\ reached' = Append(reached, "app.parseArgs")
            /\ UNCHANGED panicAt
    /\ UNCHANGED <<UniFrame, applicationFlags, cmdFlags, invoked>>

\* the Before hook has run; Run dispatches to the command the arguments
\* name, or to the application's Action
UniDispatch ==
    /\ upc = "dispatch"
    /\ upc' = IF invoked = 0 THEN "done" ELSE "c.parseArgs"
    /\ reached' = Append(reached, "dispatch")
    /\ UNCHANGED <<UniFrame, applicationFlags, cmdFlags, invoked, panicAt>>

\* c.parseArgs(...) in Command.Run: flagSet(c.Name, c.Flags) for the command
\* invoked
UniCmdParseArgs ==
    /\ upc = "c.parseArgs"
    /\ IF flagSetPanics(cmdFlags[invoked])
       THEN /\ upc' = "panicked"
            /\ panicAt' = "c.parseArgs"
            /\ UNCHANGED reached
       ELSE /\ upc' = "done"
            /\ reached' = Append(reached, "c.parseArgs")
            /\ UNCHANGED panicAt
    /\ UNCHANGED <<UniFrame, applicationFlags, cmdFlags, invoked>>

NextUni ==
    \/ Setup
    \/ UniAppParseArgs
    \/ UniDispatch
    \/ UniCmdParseArgs

SpecUni == InitUni /\ [][NextUni]_vars

(* ---------------------------------------------------------------------- *)
(* Claims on flag unicity                                                 *)
(* ---------------------------------------------------------------------- *)

\* two names of the flags of one list are the same
SharesName(fls) ==
    \E i \in 1..Len(fls) : \E a \in 1..Len(Names(fls[i])) :
        \/ \E j \in 1..Len(fls) : j # i /\ \E b \in 1..Len(Names(fls[j])) :
               Names(fls[i])[a] = Names(fls[j])[b]
        \/ \E b \in 1..Len(Names(fls[i])) : b # a /\ Names(fls[i])[a] = Names(fls[i])[b]

\* a name of a flag of command c is a name of an application flag
UsesAppName(c) ==
    \E i \in 1..Len(cmdFlags[c]) : \E a \in 1..Len(Names(cmdFlags[c][i])) :
        \E j \in 1..Len(applicationFlags) : \E b \in 1..Len(Names(applicationFlags[j])) :
            Names(cmdFlags[c][i])[a] = Names(applicationFlags[j])[b]

\* the declarations conflict in one of the ways of C19
Conflicting ==
    \/ SharesName(applicationFlags)
    \/ \E c \in 1..Len(cmdFlags) : SharesName(cmdFlags[c]) \/ UsesAppName(c)

\* C19: conflicting flag declarations are rejected as a fatal configuration
\* error during the one-time setup, before any argument is parsed: two flags
\* of the same scope (the application, or any declared command, invoked or not)
\* sharing a name or alias, and a command flag whose name or alias is already
\* used by an application flag.
C19_ConflictsRejectedAtSetup ==
    (Conflicting /\ upc # "setup") => (upc = "panicked" /\ panicAt = "setup")

\* the part on a command flag that uses a name of an application flag
C19_CommandRedefinitionRejectedAtSetup ==
    ((\E c \in 1..Len(cmdFlags) : UsesAppName(c)) /\ upc # "setup")
        => (upc = "panicked" /\ panicAt = "setup")

\* two flags of one scope sharing a name are rejected when the flag set of
\* that scope is built, and only then
C19_SameScopeRejectedAtParse ==
    /\ panicAt = "app.parseArgs" <=> (upc = "panicked" /\ reached = <<"setup">>
                                        /\ SharesName(applicationFlags))
    /\ panicAt = "c.parseArgs" => SharesName(cmdFlags[invoked])
    /\ upc = "done" =>
           /\ ~SharesName(applicationFlags)
           /\ invoked # 0 => ~SharesName(cmdFlags[invoked])

(* ---------------------------------------------------------------------- *)
(* More properties of the reordering pass                                 *)
(* ---------------------------------------------------------------------- *)

\* the pass is about to read a token right after a known flag that left
\* its value to the next token
AfterFlagNeedingValue ==
    /\ Reading
    /\ idx > 1
    /\ branch[idx - 1] = "knownFlag"
    /\ previousFlagNeedsValue

\* C21: when the previous token was a known flag that needs a value, the
\* token read next is appended to the flags as that value and the
\* value-pending bit is cleared, whatever the token looks like: a token
\* starting with "-", a "--" or a command name is not reclassified.
C21_PendingValueAlwaysTaken ==
    [][AfterFlagNeedingValue =>
          /\ flags' = Append(flags, args[idx])
          /\ previousFlagNeedsValue' = FALSE]_vars

\* the same for the tokens that neither start with "-" nor are "--": a
\* command name, or any other plain token, is taken as the value
C21_PlainTokenTakenAsValue ==
    [][(AfterFlagNeedingValue /\ ~isFlag(args[idx]) /\ args[idx] # "--") =>
          /\ flags' = Append(flags, args[idx])
          /\ previousFlagNeedsValue' = FALSE
          /\ command' = command]_vars

\* the command the application pass has resolved
ResolvedCommand == cmdDefs(pass)[findCommand(cmdDefs(pass), command)]

\* the application pass is about to read a plain token right after a token
\* that names a value-taking flag of the resolved SkippedAfterFirstArg
\* command and leaves its value to the next token
AtValueOfCommandFlag ==
    /\ Reading
    /\ pass = "app"
    /\ command # ""
    /\ parsingMode = FlagParsingSkippedAfterFirstArg
    /\ idx > 1
    /\ branch[idx - 1] = "unknownFlag"
    /\ LeavesValueToNext(ResolvedCommand.Flags, args[idx - 1])
    /\ ~isFlag(args[idx])
    /\ args[idx] # "--"

\* C24: for a SkippedAfterFirstArg command the flag-interpreting region
\* after the command token ends at the first positional, not at the value of
\* a flag: in the application pass of run --reference 8 php vd.php the
\* token 8 does not flip the mode to Skipped.
C24_FlagValueKeepsRegion ==
    [][AtValueOfCommandFlag => parsingMode' = FlagParsingSkippedAfterFirstArg]_vars

\* in the pass of the command itself, where --reference is a known flag, the
\* value does not end the region and the first positional does
C24_CommandPassValueKeepsRegion ==
    [][(Reading /\ pass # "app" /\ parsingMode = FlagParsingSkippedAfterFirstArg
          /\ ~isFlag(args[idx]) /\ args[idx] # "--") =>
          parsingMode' = IF previousFlagNeedsValue
                         THEN FlagParsingSkippedAfterFirstArg
                         ELSE FlagParsingSkipped]_vars

\* the pass is about to read "--" outside a skipped region
AtTerminator ==
    /\ Reading
    /\ parsingMode # FlagParsingSkipped
    /\ args[idx] = "--"

\* C25 as stated: a "--" read outside a skipped region switches to Skipped
\* and is dropped from the output unless it equals the resolved command name.
C25_Original ==
    [][AtTerminator =>
          /\ parsingMode' = FlagParsingSkipped
          /\ flags' = flags
          /\ nonFlags' = IF args[idx] = command
                         THEN Append(nonFlags, args[idx])
                         ELSE nonFlags]_vars

\* C25: a "--" read outside a skipped region switches to Skipped and is
\* appended to the non-flags, unless it equals the command slot (the "--"
\* default command of a command pass), in which case it is dropped.
C25_TerminatorKeptUnlessCommand ==
    [][AtTerminator =>
          /\ parsingMode' = FlagParsingSkipped
          /\ flags' = flags
          /\ nonFlags' = IF args[idx] = command
                         THEN nonFlags
                         ELSE Append(nonFlags, args[idx])]_vars

C25_Witness ==
    /\ fpc = "done"
    /\ pass = "app"
    /\ args = <<"run", "--", "-v=4", "--reference", "8", "php", "vd.php">>
    /\ branch[2] = "terminator"
    /\ ret = <<"run", "--", "-v=4", "--reference", "8", "php", "vd.php">>

\* a known-flag token the pass has read that ends in a bare "="
EndsInBareEqual(i) ==
    /\ i \in 1..Len(branch)
    /\ branch[i] = "knownFlag"
    /\ Index(args[i], "=") = Len(args[i]) - 1

WithoutEqual(tok) == SubSeq(tok, 1, Len(tok) - 1)

EmittedFor(i) == flags[CHOOSE k \in 1..Len(flagsSrc) : flagsSrc[k] = i]

\* C26: a known flag token ending in a bare "=" is treated like the same
\* flag written without "=": the token emitted is the one emitted for the
\* form without "=", it holds no "=", and the next token is taken as the
\* flag's value exactly when it is for the form without "=".  -s= 5 is
\* emitted as -samples 5.
C26_BareEqualLikeNoEqual ==
    \A i \in 1..Len(branch) :
        EndsInBareEqual(i) =>
            /\ EmittedFor(i) = knownFlagToken(flagDefs(pass), WithoutEqual(args[i]))
            /\ Index(EmittedFor(i), "=") = -1
            /\ (i < Len(branch) /\ ~isFlag(args[i + 1]) /\ args[i + 1] # "--") =>
                   /\ branch[i + 1] = "flagValue"
                          <=> knownFlagNeedsValue(flagDefs(pass), WithoutEqual(args[i]))
                   /\ branch[i + 1] = "flagValue" =>
                          EmittedFor(i + 1) = args[i + 1]
            /\ (fpc = "done" /\ pass = "upload" /\ args[i] = "-s=" /\ i < Len(args)
                  /\ args[i + 1] = "5") =>
                   \E k \in 1..(Len(ret) - 1) : ret[k] = "-samples" /\ ret[k + 1] = "5"

C26_Witness ==
    /\ fpc = "done"
    /\ pass = "upload"
    /\ args = <<"-reference=4", "--samples=10", "-t", "file1", "-s=", "5", "-H='Host: foo'", "foo">>
    /\ ret = <<"-reference=4", "--samples=10", "-test", "-samples", "5", "-H='Host: foo'", "--", "file1", "foo">>

\* the declared flag a known-flag token the pass has read stands for
FlagRead(i) == findFlag(flagDefs(pass), cleanFlag(flagDefs(pass), args[i]))

\* a known flag the pass has read, written without "=", whose value is
\* boolean (BoolFlag, or the quiet flag whose value reports IsBoolFlag) or
\* that is the verbosity flag
BooleanWithoutEqual(i) ==
    /\ i \in 1..Len(branch)
    /\ branch[i] = "knownFlag"
    /\ Index(args[i], "=") = -1
    /\ FlagRead(i).Kind \in {"BoolFlag", "quietFlag", "verbosityFlag"}

\* C22: a boolean-valued flag (a BoolFlag, and the built-in --quiet/-q flag)
\* and the verbosity flag never set the value-pending bit when written
\* without "=": the token that follows is classified on its own and is never
\* moved into the flags part as a value.
C22_BooleanNeverPending ==
    \A i \in 1..Len(branch) :
        BooleanWithoutEqual(i) =>
            /\ i = Len(branch) => ~previousFlagNeedsValue
            /\ i < Len(branch) => branch[i + 1] # "flagValue"

\* the same for BoolFlag and the verbosity flag alone
C22_BoolFlagAndVerbosityNeverPending ==
    \A i \in 1..Len(branch) :
        (BooleanWithoutEqual(i) /\ FlagRead(i).Kind # "quietFlag") =>
            /\ i = Len(branch) => ~previousFlagNeedsValue
            /\ i < Len(branch) => branch[i + 1] # "flagValue"

DashCount(tok) == Len(tok) - Len(TrimLeft(tok, "-"))

\* the "=value" suffix of a token: from its first "=" to its end
ValueSuffix(tok) ==
    IF Index(tok, "=") = -1 THEN "" ELSE SubSeq(tok, Index(tok, "=") + 1, Len(tok))

\* the token differs from what was written only in the flag name
RewrittenNameOnly(i) ==
    /\ DashCount(EmittedFor(i)) = DashCount(args[i])
    /\ ValueSuffix(EmittedFor(i))
           = (IF ValueSuffix(args[i]) = "=" THEN "" ELSE ValueSuffix(args[i]))
    /\ WrittenName(EmittedFor(i)) = expandShortcut(flagDefs(pass), WrittenName(args[i]))

\* C23: when a token names a known flag, the rewritten token differs from
\* the input only in the flag name (alias replaced by the canonical name):
\* the number of leading dashes and the complete "=value" suffix, for any
\* value, are unchanged (apart from a bare trailing "=", which is stripped).
C23_OnlyNameRewritten ==
    \A i \in 1..Len(branch) : branch[i] = "knownFlag" => RewrittenNameOnly(i)

\* the same for tokens written with one or two dashes and a value that does
\* not end in "-"
C23_OneOrTwoDashesNoTrailingDash ==
    \A i \in 1..Len(branch) :
        (/\ branch[i] = "knownFlag"
         /\ DashCount(args[i]) <= 2
         /\ CharAt(args[i], Len(args[i])) # "-") => RewrittenNameOnly(i)

\* C30: the application pass neither loses nor invents tokens: after each
\* processed token the tokens held in the flags, in the non-flags and in the
\* command slot are as many as the tokens read, so the output has as many
\* tokens as the input (empty-string tokens and "--" included).
C30_TokensConserved ==
    pass \in AppPasses =>
        /\ Len(flags) + Len(nonFlags) + (IF command # "" THEN 1 ELSE 0) = Len(branch)
        /\ fpc = "done" => Len(ret) = Len(args)

\* the same for argument vectors without an empty-string token
C30_ConservedWithoutEmptyTokens ==
    (pass \in AppPasses /\ \A i \in 1..Len(args) : args[i] # "") =>
        /\ Len(flags) + Len(nonFlags) + (IF command # "" THEN 1 ELSE 0) = Len(branch)
        /\ fpc = "done" => Len(ret) = Len(args)

(* ---------------------------------------------------------------------- *)
(* More claims on IsSet and the environment                               *)
(* ---------------------------------------------------------------------- *)

\* the declared flags that have the name asked among their aliases
AliasOf(name) ==
    {i \in 1..Len(declared) : name \in Range(declared[i].Aliases)}

\* C28: Context.IsSet gives the same answer for an alias of a flag as for
\* its canonical name: when the flag was supplied on the command line,
\* IsSet(alias) is true.
C28_IsSetAliasLikeCanonical ==
    (ppc = "context" /\ isSetOut # <<>>) =>
        \A i \in AliasOf(isSetAsked) :
            /\ isSetOut[1] = IsSet(declared[i].Name, <<ScopeContext>>)
            /\ (\E k \in 1..Len(given) : given[k][1] = declared[i].Name)
                   => isSetOut[1] = TRUE

\* asked by its canonical name, a flag supplied on the command line is set
C28_CanonicalNameIsSet ==
    (ppc = "context" /\ isSetOut # <<>>) =>
        \A i \in 1..Len(declared) :
            (/\ isSetAsked = declared[i].Name
             /\ \E k \in 1..Len(given) : given[k][1] = declared[i].Name)
                => isSetOut[1] = TRUE

\* the flag set a run computes from the declarations as they were written
FirstRunFlagSet ==
    parseFlagsFromEnv(prefixes, written, Parse(flagSet(written), given).set, environ)

\* C29: reading the environment fallbacks does not modify the flag
\* declarations: after parseFlagsFromEnv each flag's EnvVars has the order it
\* had before, so running the application again with the same arguments and
\* environment yields the same flag values.
C29_DeclarationsUntouched ==
    /\ \A i \in 1..Len(declared) : declared[i].EnvVars = written[i].EnvVars
    /\ (ppc \notin {"parseArgs"} /\ Parse(flagSet(written), given).err = NoParseError)
           => fs = FirstRunFlagSet

\* with a prefix (FlagEnvPrefix) the names are read from a copy, and the
\* declarations and the values of a second run are those of the first
C29_UntouchedWithPrefix ==
    prefixes # <<>> =>
        /\ \A i \in 1..Len(declared) : declared[i].EnvVars = written[i].EnvVars
        /\ (ppc \notin {"parseArgs"} /\ Parse(flagSet(written), given).err = NoParseError)
               => fs = FirstRunFlagSet

(* ---------------------------------------------------------------------- *)
(* From the reordered arguments to Context.Args()                         *)
(* ---------------------------------------------------------------------- *)

GoDigits == {"0", "1", "2", "3", "4", "5", "6", "7", "8", "9"}

\* strconv.Atoi(s) returns no error
Atoi(s) ==
    LET body == IF Len(s) > 0 /\ CharAt(s, 1) \in {"+", "-"}
                THEN SubSeq(s, 2, Len(s)) ELSE s
    IN  Len(body) > 0 /\ \A i \in 1..Len(body) : CharAt(body, i) \in GoDigits

\* strconv.ParseBool(s) returns no error
ParseBool(s) ==
    s \in {"1", "t", "T", "TRUE", "true", "True", "0", "f", "F", "FALSE", "false", "False"}

\* the Value registered for the flag accepts the string
ValueAccepts(f, s) ==
    IF f.Kind = "IntFlag" THEN Atoi(s)
    ELSE IF f.Kind = "BoolFlag" THEN ParseBool(s)
    ELSE TRUE

\* fs.Parse(arguments) on flagSet(name, flags), where each of the flags is
\* registered under its canonical name: the arguments left unread and
\* whether an error was returned.  A token shorter than two characters or
\* not starting with "-" ends the parse and is left; "--" ends it and is read.
RECURSIVE flagParse(_, _)
flagParse(fls, a) ==
    IF a = <<>> THEN [args |-> <<>>, err |-> FALSE]
    ELSE
    LET s == Head(a)
    IN  IF Len(s) < 2 \/ CharAt(s, 1) # "-" THEN [args |-> a, err |-> FALSE]
        ELSE IF s = "--" THEN [args |-> Tail(a), err |-> FALSE]
        ELSE
        LET numMinuses == IF CharAt(s, 2) = "-" THEN 2 ELSE 1
            rest0    == SubSeq(s, numMinuses + 1, Len(s))
        IN  IF Len(rest0) = 0 \/ CharAt(rest0, 1) \in {"-", "="}
            THEN [args |-> a, err |-> TRUE]
            ELSE
            LET eq       == Index(rest0, "=")
                hasValue == eq # -1
                name     == IF hasValue THEN SubSeq(rest0, 1, eq) ELSE rest0
                value    == IF hasValue THEN SubSeq(rest0, eq + 2, Len(rest0)) ELSE ""
                hits     == {i \in 1..Len(fls) : fls[i].Name = name}
            IN  IF hits = {} THEN [args |-> Tail(a), err |-> TRUE]
                ELSE
                LET f == fls[CHOOSE i \in hits : TRUE]
                IN  IF f.Kind = "BoolFlag"
                    THEN IF hasValue /\ ~ValueAccepts(f, value)
                         THEN [args |-> Tail(a), err |-> TRUE]
                         ELSE flagParse(fls, Tail(a))
                    ELSE IF ~hasValue /\ Tail(a) = <<>>
                    THEN [args |-> <<>>, err |-> TRUE]
                    ELSE
                    LET v    == IF hasValue THEN value ELSE Head(Tail(a))
                        rest == IF hasValue THEN Tail(a) ELSE Tail(Tail(a))
                    IN  IF ValueAccepts(f, v)
                        THEN flagParse(fls, rest)
                        ELSE [args |-> rest, err |-> TRUE]

\* Context.Args(): the arguments the flag set left unread, without the
\* "--" tokens
contextArgs(unread) == SelectSeq(unread, LAMBDA t : t # "--")

\* parseArgs(app.fixArgs(arguments), flagSet(...)), for a reordering that
\* has returned
ParseFixed ==
    /\ fpc = "done"
    /\ cpc = "idle"
    /\ fsArgs' = flagParse(flagDefs(pass), ret).args
    /\ fsErr' = flagParse(flagDefs(pass), ret).err
    /\ cpc' = "parsed"
    /\ UNCHANGED <<CtxFrame, ctxArgs>>

\* ctx.Args() on the context built on the flag set
CallArgs ==
    /\ cpc = "parsed"
    /\ ~fsErr
    /\ ctxArgs' = contextArgs(fsArgs)
    /\ cpc' = "done"
    /\ UNCHANGED <<CtxFrame, fsArgs, fsErr>>

NextCtx ==
    \/ NextFix
    \/ ParseFixed
    \/ CallArgs

SpecCtx == InitFix /\ [][NextCtx]_vars

\* C27: Context.Args() of a command context returns all positional tokens
\* that the command-level reordering pass emitted after its "--" separator,
\* in order and with none removed, a literal "--" passed among the arguments
\* of a Skipped-mode command or after an earlier "--" included.
C27_ArgsAreNonFlags ==
    (cpc = "done" /\ pass \notin AppPasses) => ctxArgs = nonFlags

\* the flag set hands over all of them: what it leaves unread in a command
\* pass is what the reordering emitted after the separator
C27_UnreadAreNonFlags ==
    (cpc # "idle" /\ ~fsErr /\ pass \notin AppPasses) => fsArgs = nonFlags

\* Context.Args() returns them in order, less every "--" among them
C27_ArgsAreNonFlagsLessTerminators ==
    (cpc = "done" /\ pass \notin AppPasses) =>
        ctxArgs = SelectSeq(nonFlags, LAMBDA t : t # "--")

====
